---------------------------- MODULE Spec2Model ----------------------------
(***************************************************************************)
(* NumPuzz: the sudoku engine (app/utils/sudoku.ts), the game component    *)
(* SudokuGame, and the puzzle creation flow (PuzzleEditor, CreatePuzzle).  *)
(*                                                                         *)
(* A grid is a function g[r][c] over 0..8 x 0..8 with cells in 0..9, as    *)
(* the source's number[][]; 0 is an empty cell.  A memo grid holds a set   *)
(* of numbers per cell, as the source's Set<number>[][].                   *)
(***************************************************************************)
EXTENDS Integers, Sequences, FiniteSets, TLC

\* null where the source returns or stores number[][] | null.
None == <<>>

Idx == 0..8
Cells == Idx \X Idx

\* ------------------------------------------------------------------ grids

\* The sample puzzle's solution (SAMPLE_PUZZLE.solution).
SampleSolution ==
  [r \in Idx |->
     [c \in Idx |->
        << <<5,3,4,6,7,8,9,1,2>>,
           <<6,7,2,1,9,5,3,4,8>>,
           <<1,9,8,3,4,2,5,6,7>>,
           <<8,5,9,7,6,1,4,2,3>>,
           <<4,2,6,8,5,3,7,9,1>>,
           <<7,1,3,9,2,4,8,5,6>>,
           <<9,6,1,5,3,7,2,8,4>>,
           <<2,8,7,4,1,9,6,3,5>>,
           <<3,4,5,2,8,6,1,7,9>> >>[r + 1][c + 1]]]

\* The sample puzzle's initial grid (SAMPLE_PUZZLE.initialGrid).
SampleInitial ==
  [r \in Idx |->
     [c \in Idx |->
        << <<5,3,0,0,7,0,0,0,0>>,
           <<6,0,0,1,9,5,0,0,0>>,
           <<0,9,8,0,0,0,0,6,0>>,
           <<8,0,0,0,6,0,0,0,3>>,
           <<4,0,0,8,0,3,0,0,1>>,
           <<7,0,0,0,2,0,0,0,6>>,
           <<0,6,0,0,0,0,2,8,0>>,
           <<0,0,0,4,1,9,0,0,5>>,
           <<0,0,0,0,8,0,0,7,9>> >>[r + 1][c + 1]]]

\* The editor's "empty" preset: Array(9).fill(null).map(() => Array(9).fill(0)).
EmptyGrid == [r \in Idx |-> [c \in Idx |-> 0]]

\* grid[row][col] = num on an array (the rest of the array is kept).
SetCell(grid, row, col, num) == [grid EXCEPT ![row][col] = num]

\* grid.map(row => [...row]): a fresh array with the same cells.
CopyGrid(grid) == [r \in Idx |-> [c \in Idx |-> grid[r][c]]]

\* -------------------------------------------------------------- validator

\* A plausible slip: the column loop left out.
isValidMoveNoColumn(grid, row, col, num) ==
  LET blockRow == (row \div 3) * 3
      blockCol == (col \div 3) * 3
  IN /\ \A c \in Idx : ~(c # col /\ grid[row][c] = num)
     /\ \A r \in blockRow..(blockRow + 2) :
          \A c \in blockCol..(blockCol + 2) :
            ~((r # row \/ c # col) /\ grid[r][c] = num)

\* isValidMove: no cell of the row, the column or the block, other than
\* (row, col) itself, holds num.
isValidMove(grid, row, col, num) ==
  LET blockRow == (row \div 3) * 3
      blockCol == (col \div 3) * 3
  IN /\ \A c \in Idx : ~(c # col /\ grid[row][c] = num)
     /\ \A r \in Idx : ~(r # row /\ grid[r][col] = num)
     /\ \A r \in blockRow..(blockRow + 2) :
          \A c \in blockCol..(blockCol + 2) :
            ~((r # row \/ c # col) /\ grid[r][c] = num)

\* isValidSudokuPuzzle: every nonzero cell passes isValidMove on a copy of
\* the grid with that cell set to 0.
isValidSudokuPuzzle(grid) ==
  \A row \in Idx : \A col \in Idx :
    LET num == grid[row][col]
    IN num # 0 => isValidMove(SetCell(CopyGrid(grid), row, col, 0), row, col, num)

\* A plausible slip: the column loop left out.
validateGridNoColumn(currentGrid) ==
  {cell \in Cells :
     LET row == cell[1]
         col == cell[2]
         num == currentGrid[row][col]
         blockRow == (row \div 3) * 3
         blockCol == (col \div 3) * 3
     IN /\ num # 0
        /\ \/ \E c \in Idx : c # col /\ currentGrid[row][c] = num
           \/ \E r \in blockRow..(blockRow + 2) :
                \E c \in blockCol..(blockCol + 2) :
                  (r # row \/ c # col) /\ currentGrid[r][c] = num}

\* PuzzleEditor.validateGrid: the cells (the source's keys `${row}-${col}`)
\* whose nonzero number is met again in their row, column or block.
validateGrid(currentGrid) ==
  {cell \in Cells :
     LET row == cell[1]
         col == cell[2]
         num == currentGrid[row][col]
         blockRow == (row \div 3) * 3
         blockCol == (col \div 3) * 3
     IN /\ num # 0
        /\ \/ \E c \in Idx : c # col /\ currentGrid[row][c] = num
           \/ \E r \in Idx : r # row /\ currentGrid[r][col] = num
           \/ \E r \in blockRow..(blockRow + 2) :
                \E c \in blockCol..(blockCol + 2) :
                  (r # row \/ c # col) /\ currentGrid[r][c] = num}

\* findConflicts, which SudokuGame imports from utils/sudoku: every nonzero
\* cell that shares its number with another cell of its row, its column or
\* its block.
findConflicts(grid) ==
  {cell \in Cells :
     /\ grid[cell[1]][cell[2]] # 0
     /\ \E other \in Cells :
          /\ other # cell
          /\ \/ other[1] = cell[1]
             \/ other[2] = cell[2]
             \/ (other[1] \div 3 = cell[1] \div 3 /\ other[2] \div 3 = cell[2] \div 3)
          /\ grid[other[1]][other[2]] = grid[cell[1]][cell[2]]}

\* ----------------------------------------------------------------- solver

NoCell == <<>>

\* The least number of a nonempty set of numbers.
Least(S) == CHOOSE x \in S : \A y \in S : x <= y

\* A plausible slip: the rows are scanned from the last to the first.
findEmptyCellFromLastRow(grid) ==
  LET rows == {row \in Idx : \E col \in Idx : grid[row][col] = 0}
  IN IF rows = {} THEN NoCell
     ELSE LET row == CHOOSE x \in rows : \A y \in rows : x >= y
          IN <<row, Least({col \in Idx : grid[row][col] = 0})>>

\* findEmptyCell: the first cell holding 0, rows 0..8 and in a row columns
\* 0..8; null (NoCell) when there is none.
findEmptyCell(grid) ==
  LET rows == {row \in Idx : \E col \in Idx : grid[row][col] = 0}
  IN IF rows = {} THEN NoCell
     ELSE LET row == Least(rows)
          IN <<row, Least({col \in Idx : grid[row][col] = 0})>>

\* The numbers from num to 9 that isValidMove accepts at (row, col).
ValidFrom(grid, row, col, num) ==
  {n \in num..9 : isValidMove(grid, row, col, n)}

\* solveSudokuRecursive works on the array it is given: the result is what
\* it returns (ok) and the array as the call leaves it (grid).
RECURSIVE solveSudokuRecursive(_), solveSudokuLoop(_, _, _, _), solveSudokuPlaced(_, _, _, _)

\* The body of the for loop after grid[row][col] = num and the recursive
\* call, whose result is r: return true, or take the number back and go on.
solveSudokuPlaced(r, row, col, num) ==
  IF r.ok THEN r
  ELSE solveSudokuLoop(SetCell(r.grid, row, col, 0), row, col, num + 1)

\* The for loop of solveSudokuRecursive from num on, at the empty cell
\* (row, col): the numbers isValidMove refuses are passed over.
solveSudokuLoop(grid, row, col, num) ==
  LET valid == ValidFrom(grid, row, col, num)
  IN IF valid = {} THEN [ok |-> FALSE, grid |-> grid]
     ELSE solveSudokuPlaced(
            solveSudokuRecursive(SetCell(grid, row, col, Least(valid))),
            row, col, Least(valid))

solveSudokuRecursive(grid) ==
  LET emptyCell == findEmptyCell(grid)
  IN IF emptyCell = NoCell THEN [ok |-> TRUE, grid |-> grid]
     ELSE solveSudokuLoop(grid, emptyCell[1], emptyCell[2], 1)

\* A plausible slip: the search runs on the caller's array, no copy taken.
solveSudokuInPlace(grid) ==
  LET r == solveSudokuRecursive(grid)
  IN [ret |-> IF r.ok THEN r.grid ELSE None, arg |-> r.grid]

\* solveSudoku: ret is the value returned, arg the caller's array after the
\* call (the search runs on a copy, so the caller's array is as it was).
solveSudoku(grid) ==
  LET solution == CopyGrid(grid)
      r == solveSudokuRecursive(solution)
  IN [ret |-> IF r.ok THEN r.grid ELSE None, arg |-> grid]

\* ------------------------------------------------------------- uniqueness

RECURSIVE findAllSolutions(_, _, _), findAllSolutionsLoop(_, _, _, _, _, _), findAllSolutionsPlaced(_, _, _, _, _)

\* The body of the for loop after grid[row][col] = num and the recursive
\* call, whose result is r: the number is taken back and the loop goes on.
findAllSolutionsPlaced(r, maxSolutions, row, col, num) ==
  findAllSolutionsLoop(SetCell(r.grid, row, col, 0), r.solutions,
                       maxSolutions, row, col, num + 1)

\* The for loop of findAllSolutions from num on: every valid number is
\* placed, searched and taken back.
findAllSolutionsLoop(grid, solutions, maxSolutions, row, col, num) ==
  LET valid == ValidFrom(grid, row, col, num)
  IN IF valid = {} THEN [grid |-> grid, solutions |-> solutions]
     ELSE findAllSolutionsPlaced(
            findAllSolutions(SetCell(grid, row, col, Least(valid)),
                             solutions, maxSolutions),
            maxSolutions, row, col, Least(valid))

\* findAllSolutions: grid is the array as the call leaves it, solutions the
\* list after the call.
findAllSolutions(grid, solutions, maxSolutions) ==
  IF Len(solutions) >= maxSolutions
  THEN [grid |-> grid, solutions |-> solutions]
  ELSE LET emptyCell == findEmptyCell(grid)
       IN IF emptyCell = NoCell
          THEN [grid |-> grid, solutions |-> Append(solutions, CopyGrid(grid))]
          ELSE findAllSolutionsLoop(grid, solutions, maxSolutions,
                                    emptyCell[1], emptyCell[2], 1)

\* A plausible slip: an empty list counts as unique too.
hasUniqueSolutionAtMostOne(grid) ==
  LET tempGrid == CopyGrid(grid)
      r == findAllSolutions(tempGrid, <<>>, 2)
  IN [ret |-> Len(r.solutions) <= 1, arg |-> grid, solutions |-> r.solutions]

\* hasUniqueSolution: ret is the value returned, arg the caller's array
\* after the call, solutions the list the search filled.
hasUniqueSolution(grid) ==
  LET tempGrid == CopyGrid(grid)
      r == findAllSolutions(tempGrid, <<>>, 2)
  IN [ret |-> Len(r.solutions) = 1, arg |-> grid, solutions |-> r.solutions]

\* ------------------------------------------------------------------ memos

EmptyMemoGrid == [r \in Idx |-> [c \in Idx |-> {}]]

\* A plausible slip: the number is added and never taken out.
toggleMemoAddOnly(memoGrid, row, col, number) ==
  [memoGrid EXCEPT ![row][col] = @ \cup {number}]

\* toggleMemo: number leaves the cell's set when it is there, joins it
\* otherwise.
toggleMemo(memoGrid, row, col, number) ==
  IF number \in memoGrid[row][col]
  THEN [memoGrid EXCEPT ![row][col] = @ \ {number}]
  ELSE [memoGrid EXCEPT ![row][col] = @ \cup {number}]

\* A plausible slip: every cell's set is emptied.
clearCellMemoEveryCell(memoGrid, row, col) == [r \in Idx |-> [c \in Idx |-> {}]]

clearCellMemo(memoGrid, row, col) == [memoGrid EXCEPT ![row][col] = {}]

\* A plausible slip: the 3x3 block loop left out.
autoRemoveMemosNoBlock(memoGrid, row, col, number) ==
  [r \in Idx |->
     [c \in Idx |->
        IF r = row \/ c = col THEN memoGrid[r][c] \ {number} ELSE memoGrid[r][c]]]

\* A plausible slip: the sets of the row, the column and the block are
\* cleared.
autoRemoveMemosWholeSets(memoGrid, row, col, number) ==
  LET blockRow == (row \div 3) * 3
      blockCol == (col \div 3) * 3
  IN [r \in Idx |->
        [c \in Idx |->
           IF \/ r = row
              \/ c = col
              \/ (r \in blockRow..(blockRow + 2) /\ c \in blockCol..(blockCol + 2))
           THEN {}
           ELSE memoGrid[r][c]]]

\* autoRemoveMemos: number leaves every set of the row, of the column and
\* of the 3x3 block of (row, col).
autoRemoveMemos(memoGrid, row, col, number) ==
  LET blockRow == (row \div 3) * 3
      blockCol == (col \div 3) * 3
  IN [r \in Idx |->
        [c \in Idx |->
           IF \/ r = row
              \/ c = col
              \/ (r \in blockRow..(blockRow + 2) /\ c \in blockCol..(blockCol + 2))
           THEN memoGrid[r][c] \ {number}
           ELSE memoGrid[r][c]]]

clearAllMemos(memoGrid) == EmptyMemoGrid

\* ------------------------------------------------------------- game state

\* completedAt?: string, when the field is absent.
NoTime == -1

\* createInitialState at time t (new Date().toISOString()).
createInitialState(puzzle, t) ==
  [puzzle |-> puzzle,
   currentGrid |-> CopyGrid(puzzle.initialGrid),
   memoGrid |-> EmptyMemoGrid,
   startedAt |-> t,
   lastModified |-> t,
   completedAt |-> NoTime,
   timeSpent |-> 0,
   hintsUsed |-> 0,
   isMemoryMode |-> FALSE]

isGameComplete(currentGrid, solution) ==
  \A row \in Idx : \A col \in Idx : currentGrid[row][col] = solution[row][col]

\* calculateTimeSpent: whole seconds from startedAt to lastModified (the
\* model's clock counts seconds).
calculateTimeSpent(startedAt, lastModified) == lastModified - startedAt

\* Array.from(cell): the numbers of a set as an array.
RECURSIVE ArrayFrom(_)
ArrayFrom(cell) ==
  IF cell = {} THEN <<>>
  ELSE LET x == CHOOSE y \in cell : \A z \in cell : y <= z
       IN <<x>> \o ArrayFrom(cell \ {x})

\* new Set(cell): the set of an array's numbers.
SetFrom(cell) == {cell[i] : i \in DOMAIN cell}

\* saveCurrentGame: what localStorage holds under STORAGE_KEY after the call
\* (the state with each memo set written as an array).
saveCurrentGame(gameState) ==
  [gameState EXCEPT
     !.memoGrid = [r \in Idx |-> [c \in Idx |-> ArrayFrom(gameState.memoGrid[r][c])]]]

\* A plausible slip: new Set() for new Set(cell).
loadCurrentGameEmptySets(stored) ==
  IF stored = None THEN None
  ELSE [stored EXCEPT !.memoGrid = [r \in Idx |-> [c \in Idx |-> {}]]]

\* loadCurrentGame: null when nothing is stored, else the stored state with
\* each memo array made a set again.
loadCurrentGame(stored) ==
  IF stored = None THEN None
  ELSE [stored EXCEPT
          !.memoGrid = [r \in Idx |-> [c \in Idx |-> SetFrom(stored.memoGrid[r][c])]]]

\* ---------------------------------------------- numbers (IEEE 754 doubles)
\* calculateProgress divides and multiplies numbers, which are doubles: the
\* quotient and the product are each rounded to 53 significant bits.

\* A number is written in base 1024: a sequence of digits (limbs), the most
\* significant first, the last six of them after the point.
MantissaBits == 53

Front(limbs) == SubSeq(limbs, 1, Len(limbs) - 1)

\* The first n digits after the point of r / t in base 1024, for r < t.
RECURSIVE QuotientLimbs(_, _, _)
QuotientLimbs(r, t, n) ==
  IF n = 0 THEN <<>>
  ELSE <<(1024 * r) \div t>> \o QuotientLimbs((1024 * r) % t, t, n - 1)

\* What is left of r / t after n such digits: (r * 1024^n) modulo t.
RECURSIVE Remainder(_, _, _)
Remainder(r, t, n) == IF n = 0 THEN r ELSE Remainder((1024 * r) % t, t, n - 1)

\* limbs * 100 + carry; the result has one limb more.
RECURSIVE TimesHundredLimbs(_, _)
TimesHundredLimbs(limbs, carry) ==
  IF limbs = <<>> THEN <<carry>>
  ELSE TimesHundredLimbs(Front(limbs), (100 * limbs[Len(limbs)] + carry) \div 1024)
         \o <<(100 * limbs[Len(limbs)] + carry) % 1024>>

\* limbs + carry.
RECURSIVE AddCarry(_, _)
AddCarry(limbs, carry) ==
  IF carry = 0 \/ limbs = <<>> THEN limbs
  ELSE IF Len(limbs) = 1 THEN <<limbs[1] + carry>>
  ELSE AddCarry(Front(limbs), (limbs[Len(limbs)] + carry) \div 1024)
         \o <<(limbs[Len(limbs)] + carry) % 1024>>

\* The number of bits of limbs from its first 1 on (limbs is not 0).
BitLength(limbs) ==
  LET lead == CHOOSE i \in 1..Len(limbs) :
                limbs[i] # 0 /\ \A j \in 1..(i - 1) : limbs[j] = 0
  IN 10 * (Len(limbs) - lead)
       + CHOOSE n \in 1..10 : 2 ^ (n - 1) <= limbs[lead] /\ limbs[lead] < 2 ^ n

\* limbs, whose last two limbs make low, with the bits of low below unit
\* rounded away: up when they are more than half of unit, or half of it and
\* the last bit kept is 1 (ties to even); inexact tells that limbs is itself
\* cut off.
RoundLast(limbs, low, unit, inexact) ==
  LET rest == low % unit
      up == \/ 2 * rest > unit
            \/ 2 * rest = unit /\ (inexact \/ (low \div unit) % 2 = 1)
      rounded == low - rest + (IF up THEN unit ELSE 0)
  IN AddCarry(SubSeq(limbs, 1, Len(limbs) - 2), rounded \div (1024 * 1024))
       \o <<(rounded \div 1024) % 1024, rounded % 1024>>

\* limbs of length bits rounded to MantissaBits bits; the bits rounded away
\* are fewer than twenty, of the last two limbs.
RoundTo(limbs, length, inexact) ==
  IF length <= MantissaBits THEN limbs
  ELSE RoundLast(limbs,
                 1024 * limbs[Len(limbs) - 1] + limbs[Len(limbs)],
                 2 ^ (length - MantissaBits),
                 inexact)

\* The double nearest to limbs.
RoundToDouble(limbs, inexact) == RoundTo(limbs, BitLength(limbs), inexact)

\* filledCells / totalEmptyCells in double arithmetic, 0 < filled < total:
\* seventy bits of the quotient, which hold more bits than a double keeps,
\* rounded; the last ten are zeros then.
Quotient(filledCells, totalEmptyCells) ==
  Front(RoundToDouble(QuotientLimbs(filledCells, totalEmptyCells, 7),
                      Remainder(filledCells, totalEmptyCells, 7) # 0))

\* x * 100 in double arithmetic: the exact product, rounded; its first limb
\* is the part before the point.
TimesHundred(x) == RoundToDouble(TimesHundredLimbs(x, 0), FALSE)

\* Math.round(x) for a double x of 0 <= x < 1024: floor(x + 0.5), the part
\* of x before the point and one more when its first bit after the point
\* is 1.
MathRound(x) == x[1] + (IF x[2] >= 512 THEN 1 ELSE 0)

\* Math.round((filledCells / totalEmptyCells) * 100); 0 / t and t / t are
\* exact, and so are their products with 100.
roundedPercent(filledCells, totalEmptyCells) ==
  IF filledCells = 0 THEN 0
  ELSE IF filledCells = totalEmptyCells THEN 100
  ELSE MathRound(TimesHundred(Quotient(filledCells, totalEmptyCells)))

calculateProgress(currentGrid, initialGrid) ==
  LET empties == {cell \in Cells : initialGrid[cell[1]][cell[2]] = 0}
      filled == {cell \in empties : currentGrid[cell[1]][cell[2]] # 0}
  IN IF Cardinality(empties) = 0 THEN 100
     ELSE roundedPercent(Cardinality(filled), Cardinality(empties))

\* ---------------------------------------------------- puzzle creation

\* createPuzzleFromPhoto once solveSudoku has returned a solution (the
\* function throws when it returns null): the fields the engine reads.
createPuzzleFromPhoto(grid) ==
  [initialGrid |-> CopyGrid(grid),
   solution |-> solveSudoku(grid).ret,
   source |-> "upload"]

\* A call of createPuzzleFromPhoto as its caller sees it: thrown when the
\* function leaves by throw new Error (solveSudoku returned null), else the
\* puzzle it returns.
createPuzzleFromPhotoCall(grid) ==
  IF solveSudoku(grid).ret = None
  THEN [thrown |-> TRUE, puzzle |-> None]
  ELSE [thrown |-> FALSE, puzzle |-> createPuzzleFromPhoto(grid)]

\* SAMPLE_PUZZLE of SudokuGame.
SAMPLE_PUZZLE ==
  [initialGrid |-> SampleInitial, solution |-> SampleSolution, source |-> "sample"]

\* ------------------------------------------------- the SudokuGame component

\* The component's state is a record c: gameState, selectedCell, isComplete,
\* gameStarted (its useState cells) and storage (localStorage's item under
\* STORAGE_KEY: <<>> or <<the saved state>>).  A handler maps the record as
\* it is when the event arrives to the record it leaves; t is the clock's
\* reading during the handler.

\* updateGameState: the new state is set and saved.
updateGameState(c, newState) ==
  [c EXCEPT !.gameState = newState,
            !.storage = <<saveCurrentGame(newState)>>]

\* A plausible slip: the early return on a complete game left out.
inputRejectedUnlessComplete(c) ==
  \/ c.selectedCell = NoCell
  \/ c.gameState.puzzle.initialGrid[c.selectedCell[1]][c.selectedCell[2]] # 0

\* The early returns of handleNumberInput and of handleClearCell.
inputRejected(c) ==
  \/ c.selectedCell = NoCell
  \/ c.isComplete
  \/ c.gameState.puzzle.initialGrid[c.selectedCell[1]][c.selectedCell[2]] # 0

\* A plausible slip: the check of the given cells left out.
handleNumberInputNoGivenCheck(c, number, t) ==
  IF c.selectedCell = NoCell \/ c.isComplete THEN c
  ELSE updateGameState([c EXCEPT !.gameStarted = TRUE],
         [c.gameState EXCEPT
            !.currentGrid = SetCell(CopyGrid(@), c.selectedCell[1], c.selectedCell[2], number),
            !.lastModified = t,
            !.timeSpent = calculateTimeSpent(c.gameState.startedAt, t)])

\* A plausible slip: a number that isValidMove refuses is not taken.
handleNumberInputValidOnly(c, number, t) ==
  IF inputRejected(c) THEN c
  ELSE IF /\ ~c.gameState.isMemoryMode
          /\ number # 0
          /\ ~isValidMove(c.gameState.currentGrid, c.selectedCell[1],
                          c.selectedCell[2], number)
       THEN c
  ELSE handleNumberInputNoGivenCheck(c, number, t)

\* handleNumberInput(number).
handleNumberInput(c, number, t) ==
  IF inputRejected(c) THEN c
  ELSE LET row == c.selectedCell[1]
           col == c.selectedCell[2]
           gs == c.gameState
           started == [c EXCEPT !.gameStarted = TRUE]
       IN IF gs.isMemoryMode
          THEN [started EXCEPT !.gameState =
                  [gs EXCEPT !.memoGrid = toggleMemo(gs.memoGrid, row, col, number),
                             !.lastModified = t,
                             !.timeSpent = calculateTimeSpent(gs.startedAt, t)]]
          ELSE LET newGrid == SetCell(CopyGrid(gs.currentGrid), row, col, number)
                   newMemoGrid ==
                     IF number # 0
                     THEN clearCellMemo(autoRemoveMemos(gs.memoGrid, row, col, number),
                                        row, col)
                     ELSE gs.memoGrid
               IN updateGameState(started,
                    [gs EXCEPT !.currentGrid = newGrid,
                               !.memoGrid = newMemoGrid,
                               !.lastModified = t,
                               !.timeSpent = calculateTimeSpent(gs.startedAt, t)])

\* handleClearCell.
handleClearCell(c, t) ==
  IF inputRejected(c) THEN c
  ELSE LET gs == c.gameState
       IN IF gs.isMemoryMode
          THEN updateGameState(c,
                 [gs EXCEPT !.memoGrid = clearCellMemo(gs.memoGrid, c.selectedCell[1],
                                                       c.selectedCell[2]),
                            !.lastModified = t,
                            !.timeSpent = calculateTimeSpent(gs.startedAt, t)])
          ELSE handleNumberInput(c, 0, t)

\* A plausible slip: the early return on a complete game left out.
handleToggleMemoryModeNoGuard(c, t) ==
  updateGameState(c,
    [c.gameState EXCEPT !.isMemoryMode = ~@, !.lastModified = t])

\* handleToggleMemoryMode.
handleToggleMemoryMode(c, t) ==
  IF c.isComplete THEN c
  ELSE updateGameState(c,
         [c.gameState EXCEPT !.isMemoryMode = ~@, !.lastModified = t])

\* handleClearAllMemos.
handleClearAllMemos(c, t) ==
  IF c.isComplete THEN c
  ELSE updateGameState(c,
         [c.gameState EXCEPT !.memoGrid = clearAllMemos(@),
                             !.lastModified = t,
                             !.timeSpent = calculateTimeSpent(c.gameState.startedAt, t)])

\* handleResetToInitial once window.confirm has answered true.
handleResetToInitial(c, t) ==
  [updateGameState(c,
     [c.gameState EXCEPT !.currentGrid = CopyGrid(c.gameState.puzzle.initialGrid),
                         !.memoGrid = EmptyMemoGrid,
                         !.lastModified = t])
   EXCEPT !.gameStarted = FALSE]

\* A plausible slip: the completion check runs again on a completed game.
completionEffectAgain(c, t) ==
  IF isGameComplete(c.gameState.currentGrid, c.gameState.puzzle.solution)
  THEN LET completedState ==
             [c.gameState EXCEPT
                !.completedAt = t,
                !.timeSpent = calculateTimeSpent(c.gameState.startedAt, t)]
       IN [c EXCEPT !.isComplete = TRUE,
                    !.gameState = completedState,
                    !.storage = <<saveCurrentGame(completedState)>>]
  ELSE c

\* The completion effect (useEffect on [gameState?.currentGrid, isComplete]),
\* run after a render that replaced currentGrid or changed isComplete.
completionEffect(c, t) ==
  IF ~c.isComplete
     /\ isGameComplete(c.gameState.currentGrid, c.gameState.puzzle.solution)
  THEN LET completedState ==
             [c.gameState EXCEPT
                !.completedAt = t,
                !.timeSpent = calculateTimeSpent(c.gameState.startedAt, t)]
       IN [c EXCEPT !.isComplete = TRUE,
                    !.gameState = completedState,
                    !.storage = <<saveCurrentGame(completedState)>>]
  ELSE c

\* The mount effect (useEffect on []) and the effects of the first render:
\* the saved game is loaded, or a game on SAMPLE_PUZZLE is created.
mount(storage, t) ==
  LET savedGame == loadCurrentGame(IF storage = <<>> THEN None ELSE storage[1])
      loaded ==
        IF storage # <<>>
        THEN [gameState |-> savedGame,
              selectedCell |-> NoCell,
              isComplete |-> savedGame.completedAt # NoTime,
              gameStarted |-> calculateProgress(savedGame.currentGrid,
                                                savedGame.puzzle.initialGrid) > 0,
              storage |-> storage]
        ELSE [gameState |-> createInitialState(SAMPLE_PUZZLE, t),
              selectedCell |-> NoCell,
              isComplete |-> FALSE,
              gameStarted |-> FALSE,
              storage |-> storage]
  IN completionEffect(loaded, t)

\* ------------------------------------------------ the PuzzleEditor component

\* A text is a sequence of lines and a line a sequence of characters; the
\* empty string is the text without lines.
DigitChars == <<"1", "2", "3", "4", "5", "6", "7", "8", "9">>

\* line.trim(): the line without its leading and trailing spaces.
TrimLine(line) ==
  IF \A i \in 1..Len(line) : line[i] = " " THEN <<>>
  ELSE SubSeq(line,
              CHOOSE i \in 1..Len(line) :
                line[i] # " " /\ \A j \in 1..(i - 1) : line[j] = " ",
              CHOOSE i \in 1..Len(line) :
                line[i] # " " /\ \A j \in (i + 1)..Len(line) : line[j] = " ")

\* The lines the filter of stringToGrid keeps.
IsTextLine(line) == TrimLine(line) # <<>>

\* The number a character of a line stands for; -1 for an invalid one.
CharValue(char) ==
  IF char \in {".", "0", " "} THEN 0
  ELSE IF \E d \in 1..9 : DigitChars[d] = char
       THEN CHOOSE d \in 1..9 : DigitChars[d] = char
       ELSE -1

\* gridToString.
gridToString(currentGrid) ==
  [i \in 1..9 |->
     [j \in 1..9 |->
        IF currentGrid[i - 1][j - 1] = 0 THEN "."
        ELSE DigitChars[currentGrid[i - 1][j - 1]]]]

\* The lines, each trimmed.
RECURSIVE TrimAll(_)
TrimAll(lines) ==
  IF lines = <<>> THEN <<>>
  ELSE <<TrimLine(Head(lines))>> \o TrimAll(Tail(lines))

\* The for loops of stringToGrid on the lines the filter kept, trimmed.
stringToGridLines(lines) ==
  IF Len(lines) # 9 THEN None
  ELSE IF \E i \in 1..9 : Len(lines[i]) # 9 THEN None
  ELSE IF \E i \in 1..9 : \E j \in 1..9 : CharValue(lines[i][j]) = -1 THEN None
  ELSE [r \in Idx |-> [c \in Idx |-> CharValue(lines[r + 1][c + 1])]]

\* stringToGrid: the grid the text stands for, or null (None).
stringToGrid(str) == stringToGridLines(TrimAll(SelectSeq(str, IsTextLine)))

\* The editor's state is a record e: grid, selectedCell, errors, editMode,
\* textInput and textError (TRUE when a message is set).
PuzzleEditor(initialGrid) ==
  [grid |-> CopyGrid(initialGrid),
   selectedCell |-> NoCell,
   errors |-> {},
   editMode |-> "ui",
   textInput |-> <<>>,
   textError |-> FALSE]

\* applyTextChanges, newGrid being stringToGrid(textInput).
applyNewGrid(e, newGrid) ==
  IF newGrid # None
  THEN [e EXCEPT !.grid = newGrid,
                 !.errors = validateGrid(newGrid),
                 !.textError = FALSE]
  ELSE [e EXCEPT !.textError = TRUE]

\* applyTextChanges.
applyTextChanges(e) == applyNewGrid(e, stringToGrid(e.textInput))

\* The switch of handleModeChange from text to ui, newGrid being
\* stringToGrid(textInput): the same steps as applyTextChanges, and the mode
\* is set unless the text is refused.
switchToUi(e, newGrid) ==
  IF newGrid # None
  THEN [applyNewGrid(e, newGrid) EXCEPT !.editMode = "ui"]
  ELSE [e EXCEPT !.textError = TRUE]

\* handleModeChange(newMode).
handleModeChange(e, newMode) ==
  IF newMode = "text" /\ e.editMode = "ui"
  THEN [e EXCEPT !.textInput = gridToString(e.grid),
                 !.textError = FALSE,
                 !.editMode = newMode]
  ELSE IF newMode = "ui" /\ e.editMode = "text"
  THEN switchToUi(e, stringToGrid(e.textInput))
  ELSE [e EXCEPT !.editMode = newMode]

\* handleTextChange(value).
handleTextChange(e, value) ==
  [e EXCEPT !.textInput = value,
            !.textError = (stringToGrid(value) = None)]

\* handleCellClick(row, col).
handleCellClick(e, row, col) == [e EXCEPT !.selectedCell = <<row, col>>]

\* handleNumberInput(number) of PuzzleEditor.
editorHandleNumberInput(e, number) ==
  IF e.selectedCell = NoCell THEN e
  ELSE LET newGrid == SetCell(e.grid, e.selectedCell[1], e.selectedCell[2], number)
       IN [e EXCEPT !.grid = newGrid, !.errors = validateGrid(newGrid)]

\* handleSave from the check of errors on: after is the editor's state once
\* the handler's updates are applied, staleErrors the errors the handler
\* reads (those of the render it was made in), proceed confirm's answer.
handleSaveChecks(after, staleErrors, finalGrid, proceed) ==
  IF staleErrors # {}
  THEN [editor |-> after, onSave |-> None, solved |-> FALSE]
  ELSE IF solveSudoku(finalGrid).ret = None
  THEN [editor |-> after, onSave |-> None, solved |-> TRUE]
  ELSE IF ~hasUniqueSolution(finalGrid).ret /\ ~proceed
       THEN [editor |-> after, onSave |-> None, solved |-> TRUE]
  ELSE [editor |-> after, onSave |-> finalGrid, solved |-> TRUE]

\* handleSave in text mode, newGrid being stringToGrid(textInput).
handleSaveText(e, newGrid, proceed) ==
  IF newGrid = None
  THEN [editor |-> [e EXCEPT !.textError = TRUE], onSave |-> None,
        solved |-> FALSE]
  ELSE handleSaveChecks([e EXCEPT !.errors = validateGrid(newGrid)],
                        e.errors, newGrid, proceed)

\* handleSave: editor is the state after the handler, onSave the grid
\* handed to onSave or None when the handler returns before, solved
\* whether solveSudoku was called.
handleSave(e, proceed) ==
  IF e.editMode = "text"
  THEN handleSaveText(e, stringToGrid(e.textInput), proceed)
  ELSE handleSaveChecks(e, e.errors, e.grid, proceed)

\* ------------------------------------------------------ HeaderController

\* The state of HeaderController after useState.
HeaderController ==
  [isHeaderVisible |-> TRUE, isHeaderPeeking |-> FALSE, manuallyHidden |-> FALSE]

\* handleGameStateChange(shouldShow).
handleGameStateChange(h, shouldShow) ==
  IF h.manuallyHidden /\ shouldShow THEN h
  ELSE IF ~h.manuallyHidden
       THEN [h EXCEPT !.isHeaderVisible = shouldShow, !.isHeaderPeeking = FALSE]
  ELSE h

\* handleHideHeader.
handleHideHeader(h) ==
  [isHeaderVisible |-> FALSE, isHeaderPeeking |-> FALSE, manuallyHidden |-> TRUE]

\* handleIndicatorClick.
handleIndicatorClick(h) ==
  [isHeaderVisible |-> TRUE, isHeaderPeeking |-> FALSE, manuallyHidden |-> FALSE]

\* handleHeaderClick on a place of the header that is no button.
handleHeaderClick(h) ==
  IF ~h.isHeaderVisible /\ h.isHeaderPeeking
  THEN [isHeaderVisible |-> TRUE, isHeaderPeeking |-> FALSE, manuallyHidden |-> FALSE]
  ELSE h

\* handleMouseMove with the pointer at clientY.
handleMouseMove(h, clientY) ==
  IF ~h.isHeaderVisible /\ clientY < 50 THEN [h EXCEPT !.isHeaderPeeking = TRUE]
  ELSE IF ~h.isHeaderVisible /\ clientY > 100
       THEN [h EXCEPT !.isHeaderPeeking = FALSE]
  ELSE h

\* The header-visibility effect of SudokuGame: h is None when the
\* component has no onHeaderVisibilityChange (the page without
\* HeaderController).
headerVisibilityEffect(h, complete, started) ==
  IF h = None THEN None
  ELSE IF complete THEN handleGameStateChange(h, TRUE)
  ELSE IF started THEN handleGameStateChange(h, FALSE)
  ELSE handleGameStateChange(h, TRUE)

\* --------------------------------------------------- the CreatePuzzle island

\* A plausible slip: the puzzle is stored without the check of the rules.
handlePuzzleSavedUnchecked(stored, editedGrid, t) ==
  IF solveSudoku(editedGrid).ret = None
  THEN [storage |-> stored, redirected |-> FALSE]
  ELSE [storage |-> <<saveCurrentGame(createInitialState(createPuzzleFromPhoto(editedGrid), t))>>,
        redirected |-> TRUE]

\* handlePuzzleSaved(editedGrid): storage is localStorage's item after the
\* handler, redirected whether it went on to the game's page.  The error
\* createPuzzleFromPhoto throws when solveSudoku returns null is caught.
handlePuzzleSaved(stored, editedGrid, t) ==
  IF ~isValidSudokuPuzzle(editedGrid)
  THEN [storage |-> stored, redirected |-> FALSE]
  ELSE IF solveSudoku(editedGrid).ret = None
  THEN [storage |-> stored, redirected |-> FALSE]
  ELSE [storage |-> <<saveCurrentGame(createInitialState(createPuzzleFromPhoto(editedGrid), t))>>,
        redirected |-> TRUE]

\* ----------------------------------------------- the analyze-image route

\* What JSON.parse made of the model's answer: a value is a record of its
\* type; a number carries whether Number.isInteger holds of it and its
\* integer part, an array its elements (rows of a grid, cells of a row).

\* The responses of the route: the json body and the status.
Failure(error) ==
  [success |-> FALSE, grid |-> None, error |-> error, status |-> 500]
Success(parsedResult) ==
  [success |-> TRUE, grid |-> parsedResult.grid, error |-> "", status |-> 200]

\* The checks of a row: Array.isArray(row) and row.length.
RowRefused(row) == row.type # "array" \/ Len(row.cells) # 9

\* A plausible slip: the upper end of a cell's range is not checked.
CellRefusedNoUpperEnd(cell) ==
  ~(cell.type = "number" /\ cell.integer) \/ cell.value < 0

\* The check of a cell: Number.isInteger(cell), cell < 0, cell > 9.
CellRefused(cell) ==
  ~(cell.type = "number" /\ cell.integer) \/ cell.value < 0 \/ cell.value > 9

\* The loop over the rows from row i on: the error it throws, or "" when
\* it ends.
RECURSIVE validateRows(_, _)
validateRows(rows, i) ==
  IF i > Len(rows) THEN ""
  ELSE IF RowRefused(rows[i]) THEN "Each row must contain exactly 9 elements"
  ELSE IF \E j \in 1..9 : CellRefused(rows[i].cells[j])
       THEN "Grid values must be integers between 0-9"
  ELSE validateRows(rows, i + 1)

\* The validation of the parsed answer and the response: an error thrown
\* in the try block is answered by the catch block.
validateResponse(parsedResult) ==
  IF parsedResult.grid.type # "array"
  THEN Failure("Invalid grid format in response")
  ELSE IF Len(parsedResult.grid.rows) # 9 THEN Failure("Grid must be 9x9")
  ELSE IF validateRows(parsedResult.grid.rows, 1) # ""
       THEN Failure(validateRows(parsedResult.grid.rows, 1))
  ELSE Success(parsedResult)

\* A response sent before the try block's work is done: c.json(body, status).
Refused(error, status) ==
  [success |-> FALSE, grid |-> None, error |-> error, status |-> status]

\* c.env.ALLOW_USERS.split(',').map(user => user.trim()): the variable is
\* held as the pieces between its commas, each a sequence of characters.
allowUsers(ALLOW_USERS) == [i \in 1..Len(ALLOW_USERS) |-> TrimLine(ALLOW_USERS[i])]

\* !auth?.email: no auth, no email, or the empty string.
EmailMissing(auth) ==
  auth.type \in {"undefined", "null"}
    \/ auth.email.type \in {"undefined", "null"}
    \/ (auth.email.type = "string" /\ auth.email.chars = <<>>)

\* The POST handler of analyze-image up to the import of the Gemini SDK:
\* the response it returns early, or None when it goes on to call Gemini.
imageGate(request) ==
  IF ~request.apiKey THEN Refused("API key not configured", 500)
  ELSE IF ~request.image THEN Refused("No image provided", 400)
  ELSE IF EmailMissing(request.auth) THEN Refused("Email is required.", 500)
  ELSE IF request.auth.email.type # "string"
       THEN Refused("Invalid email format.", 500)
  ELSE IF \A i \in 1..Len(request.ALLOW_USERS) :
            allowUsers(request.ALLOW_USERS)[i] # request.auth.email.chars
       THEN Refused("You are Not Allowed User.", 500)
  ELSE None

\* The POST handler of analyze-image: whether it called Gemini, and its
\* response.
analyzeImage(request, parsed) ==
  IF imageGate(request) # None
  THEN [called |-> FALSE, response |-> imageGate(request)]
  ELSE [called |-> TRUE, response |-> validateResponse(parsed)]

\* ---------------------------------------------- the analyze-sudoku route

\* The POST handler of analyze-sudoku up to the fetch of the Gemini API:
\* the response it returns early, or None when it goes on to call Gemini.
\* The handler reads neither the session nor ALLOW_USERS.
sudokuGate(request) ==
  IF ~request.apiKey THEN Refused("API key not configured", 500)
  ELSE IF ~request.currentGrid \/ ~request.initialGrid
       THEN Refused("Invalid request data", 400)
  ELSE None

\* The handler after the fetch: data is Gemini's answer, with what
\* JSON.parse made of its text; an error thrown is answered by the catch
\* block.
sudokuResponse(data, time) ==
  IF ~data.ok THEN Failure("Gemini API error: 503")
  ELSE IF data.error # "" THEN Failure(data.error)
  ELSE IF data.candidates = 0 THEN Failure("No response from Gemini API")
  ELSE IF ~data.json THEN Failure("Invalid response format from AI")
  ELSE IF data.technique = "" \/ data.description = ""
       THEN Failure("Invalid response format")
  ELSE [success |-> TRUE, technique |-> data.technique,
        description |-> data.description, timestamp |-> time,
        error |-> "", status |-> 200]

\* The POST handler of analyze-sudoku: whether it called Gemini, and its
\* response.
analyzeSudoku(request, data, time) ==
  IF sudokuGate(request) # None
  THEN [called |-> FALSE, response |-> sudokuGate(request)]
  ELSE [called |-> TRUE, response |-> sudokuResponse(data, time)]

\* The number[][] the client takes data.grid for.
DataGrid(value) ==
  [r \in Idx |-> [c \in Idx |-> value.rows[r + 1].cells[c + 1].value]]

\* analyzeImageWithGemini on the route's response: the result handed to
\* onPhotoAnalyzed, or None when the error is thrown on to handleAnalyze.
\* On localhost the sample grid stands in for a failed request.
analyzeImageWithGemini(data, isLocalDevelopment) ==
  IF data.status = 200 /\ data.success
  THEN [success |-> TRUE, grid |-> DataGrid(data.grid)]
  ELSE IF isLocalDevelopment THEN [success |-> TRUE, grid |-> SampleInitial]
  ELSE None

\* ============================================================= the state

\* A call of the solver and of the uniqueness check on one grid, as
\* PuzzleEditor.handleSave makes them one after the other.
VARIABLES
  givenGrid,      \* the grid as it was handed over
  grid,           \* the caller's array
  solveRet,       \* what solveSudoku returned: a grid or None
  uniqueRet,      \* what hasUniqueSolution returned
  foundSolutions, \* the list findAllSolutions filled
  created,        \* how createPuzzleFromPhoto left: thrown, or the puzzle
  conflicts,      \* the cells validateGrid reported
  pc              \* "input", "solved", "checked", "created", "validated"

solverVars ==
  <<givenGrid, grid, solveRet, uniqueRet, foundSolutions, created, conflicts, pc>>

\* The SudokuGame component, localStorage and the clock.
VARIABLES
  gameState,      \* useState<SudokuState | null>, after the mount effect
  selectedCell,   \* useState<[number, number] | null>
  isComplete,     \* useState(false)
  gameStarted,    \* useState(false)
  storage,        \* localStorage under STORAGE_KEY: <<>> or <<saved state>>
  now,            \* the clock, in seconds
  lastOp,         \* the handler that ran last, and whether it returned early
  events          \* how many events the component has handled

gameVars ==
  <<gameState, selectedCell, isComplete, gameStarted, storage, now, lastOp, events>>

\* The CreatePuzzle island with its PuzzleEditor.
VARIABLES
  step,           \* useState<"upload" | "edit">; "game" after the redirect
  editor,         \* PuzzleEditor's state; None while step is "upload"
  offered         \* the grid the last handleSave handed to onSave, or None

editorVars == <<step, editor, offered>>

\* What the page shows of the game.
VARIABLES
  progress,       \* <<the percentage SudokuGame rendered>>; <<>> before a render
  header          \* the state of HeaderController; None on the page that
                  \* renders SudokuGame without it

renderVars == <<progress, header>>

\* A search of solveSudokuRecursive or of findAllSolutions, step by step.
VARIABLES
  searchKind,      \* "solve" (solveSudoku) or "unique" (hasUniqueSolution)
  searchInput,     \* the grid the caller handed over
  searchGrid,      \* the copy the search works on
  searchStack,     \* the active calls, the outermost first: each frame
                   \* holds its empty cell (row, col) and its loop's num
  searchSolutions, \* the list solutions of findAllSolutions
  searchReturned,  \* what the call that returned last returned
  searchPc         \* "enter": a call begins; "loop": the top frame is at
                   \* the head of its for loop; "return": a call has
                   \* returned; "done": the outermost call has returned

searchVars ==
  <<searchKind, searchInput, searchGrid, searchStack, searchSolutions,
    searchReturned, searchPc>>

\* A request to the analyze-image route and its answer.
VARIABLES
  parsedResult,    \* what JSON.parse made of the model's answer; None
                   \* before a request
  response,        \* the route's last response, or None
  isAnalyzing,     \* useState(false) of the upload: a request is under way
  request,         \* the request a route handled last, with its route;
                   \* None before a request
  geminiCalled,    \* whether the handler of that request called Gemini
  hint             \* the last response of the analyze-sudoku route, or None

analyzeVars ==
  <<parsedResult, response, isAnalyzing, request, geminiCalled, hint>>

vars ==
  <<solverVars, gameVars, editorVars, renderVars, searchVars, analyzeVars>>

\* ------------------------------------------------------ the solver's runs

\* At most MaxBlank cells of the sample solution are emptied.
MaxBlank == 4

\* The cells emptied or overwritten: the four corners of a rectangle that
\* holds 6 7 / 7 6 in one stack, and two neighbours of the first row.
InputCells == {<<0, 3>>, <<0, 4>>, <<3, 3>>, <<3, 4>>, <<0, 7>>, <<0, 8>>}

\* The sample solution with the cells of blanks emptied and then, when over
\* is a pair <<cell, digit>>, that cell set to the digit.
InputGrid(blanks, over) ==
  [r \in Idx |->
     [c \in Idx |->
        IF over # <<>> /\ over[1] = <<r, c>> THEN over[2]
        ELSE IF <<r, c>> \in blanks THEN 0
        ELSE SampleSolution[r][c]]]

SolverInputs ==
  {InputGrid(blanks, over) :
            blanks \in {b \in SUBSET InputCells : Cardinality(b) <= MaxBlank},
            over \in {<<>>} \cup (InputCells \X (1..9))}

SolverStart ==
  /\ givenGrid \in SolverInputs
  /\ grid = givenGrid
  /\ solveRet = None
  /\ uniqueRet = FALSE
  /\ foundSolutions = <<>>
  /\ created = None
  /\ conflicts = {}
  /\ pc = "input"

\* The solver at rest, in the runs of the other components.
SolverIdle ==
  /\ givenGrid = EmptyGrid
  /\ grid = EmptyGrid
  /\ solveRet = None
  /\ uniqueRet = FALSE
  /\ foundSolutions = <<>>
  /\ created = None
  /\ conflicts = {}
  /\ pc = "idle"

CallSolveSudoku ==
  /\ pc = "input"
  /\ LET s == solveSudoku(grid)
     IN /\ solveRet' = s.ret
        /\ grid' = s.arg
  /\ pc' = "solved"
  /\ UNCHANGED <<givenGrid, uniqueRet, foundSolutions, created, conflicts>>
  /\ UNCHANGED gameVars
  /\ UNCHANGED editorVars
  /\ UNCHANGED renderVars
  /\ UNCHANGED searchVars
  /\ UNCHANGED analyzeVars

CallHasUniqueSolution ==
  /\ pc = "solved"
  /\ LET u == hasUniqueSolution(grid)
     IN /\ uniqueRet' = u.ret
        /\ grid' = u.arg
        /\ foundSolutions' = u.solutions
  /\ pc' = "checked"
  /\ UNCHANGED <<givenGrid, solveRet, created, conflicts>>
  /\ UNCHANGED gameVars
  /\ UNCHANGED editorVars
  /\ UNCHANGED renderVars
  /\ UNCHANGED searchVars
  /\ UNCHANGED analyzeVars

\* createPuzzleFromPhoto(grid), as handlePuzzleSaved calls it inside its try.
CallCreatePuzzleFromPhoto ==
  /\ pc = "checked"
  /\ created' = createPuzzleFromPhotoCall(grid)
  /\ pc' = "created"
  /\ UNCHANGED <<givenGrid, grid, solveRet, uniqueRet, foundSolutions, conflicts>>
  /\ UNCHANGED gameVars
  /\ UNCHANGED editorVars
  /\ UNCHANGED renderVars
  /\ UNCHANGED searchVars
  /\ UNCHANGED analyzeVars

\* validateGrid(grid), as PuzzleEditor calls it on the grid it edits.
CallValidateGrid ==
  /\ pc = "created"
  /\ conflicts' = validateGrid(grid)
  /\ pc' = "validated"
  /\ UNCHANGED <<givenGrid, grid, solveRet, uniqueRet, foundSolutions, created>>
  /\ UNCHANGED gameVars
  /\ UNCHANGED editorVars
  /\ UNCHANGED renderVars
  /\ UNCHANGED searchVars
  /\ UNCHANGED analyzeVars

SolverNext ==
  \/ CallSolveSudoku
  \/ CallHasUniqueSolution
  \/ CallCreatePuzzleFromPhoto
  \/ CallValidateGrid

\* -------------------------------------------------------- the game's runs

\* The number buttons pressed are 1..MaxDigit.
MaxDigit == 2

\* The clock runs from 0 to MaxTime.
MaxTime == 1

\* The component handles at most MaxEvents events (selections, buttons,
\* reloads) in a run.
MaxEvents == 5

\* The cells the player selects: a given cell and two empty neighbours of
\* the first row, which the sample solution fills with 1 and 2.
SelectCells == {<<0, 0>>, <<0, 7>>, <<0, 8>>}

\* The grids of the puzzles CreatePuzzle stored: the sample solution with
\* one cell emptied, and with none.
StoredGrids == {InputGrid({<<0, 7>>}, <<>>), SampleSolution}

\* The empty cells of the game in progress beside (0, 7): one of its row
\* only, one of its column only, one of its block only, and one of none.
MemoCells == {<<0, 3>>, <<4, 7>>, <<1, 8>>, <<8, 0>>}

\* A game in progress as updateGameState saved it: the sample solution with
\* (0, 7) and the cells of MemoCells emptied, the player's memos 1 and 2 on
\* each cell of MemoCells.
GameInProgress ==
  [createInitialState(
     createPuzzleFromPhoto(InputGrid({<<0, 7>>} \cup MemoCells, <<>>)), 0)
     EXCEPT !.memoGrid =
       [r \in Idx |-> [c \in Idx |-> IF <<r, c>> \in MemoCells THEN {1, 2} ELSE {}]]]

\* What storage holds when SudokuGame mounts: nothing (the game is then on
\* SAMPLE_PUZZLE), the game handlePuzzleSaved stored, or a game in progress.
StoredGames ==
  {<<>>, <<saveCurrentGame(GameInProgress)>>}
    \cup {<<saveCurrentGame(createInitialState(createPuzzleFromPhoto(g), 0))>> :
            g \in StoredGrids}

\* The component's state as a record, and the record written back.
Component ==
  [gameState |-> gameState, selectedCell |-> selectedCell,
   isComplete |-> isComplete, gameStarted |-> gameStarted, storage |-> storage]

Becomes(c) ==
  /\ gameState' = c.gameState
  /\ selectedCell' = c.selectedCell
  /\ isComplete' = c.isComplete
  /\ gameStarted' = c.gameStarted
  /\ storage' = c.storage

GameStart ==
  /\ now = 0
  /\ \E st \in StoredGames :
       LET c == mount(st, 0)
       IN /\ gameState = c.gameState
          /\ selectedCell = c.selectedCell
          /\ isComplete = c.isComplete
          /\ gameStarted = c.gameStarted
          /\ storage = c.storage
  /\ lastOp = [name |-> "mount", rejected |-> FALSE]
  /\ events = 0

GameIdle ==
  /\ now = 0
  /\ gameState = createInitialState(SAMPLE_PUZZLE, 0)
  /\ selectedCell = NoCell
  /\ isComplete = FALSE
  /\ gameStarted = FALSE
  /\ storage = <<>>
  /\ lastOp = [name |-> "idle", rejected |-> FALSE]
  /\ events = 0

\* The header-visibility effect runs after a render in which isComplete or
\* gameStarted has changed.  When both change in the renders of one event,
\* the call with the last values decides: handleGameStateChange leaves
\* manuallyHidden alone and either sets isHeaderVisible or does nothing.
HeaderTold ==
  header' = IF isComplete' = isComplete /\ gameStarted' = gameStarted THEN header
            ELSE headerVisibilityEffect(header, isComplete', gameStarted')

\* An event is handled: it is counted and remembered.
Handled(name, rejected) ==
  /\ events < MaxEvents
  /\ events' = events + 1
  /\ lastOp' = [name |-> name, rejected |-> rejected]

Tick ==
  /\ now < MaxTime
  /\ now' = now + 1
  /\ UNCHANGED <<gameState, selectedCell, isComplete, gameStarted, storage, lastOp, events>>
  /\ UNCHANGED solverVars
  /\ UNCHANGED editorVars
  /\ UNCHANGED renderVars
  /\ UNCHANGED searchVars
  /\ UNCHANGED analyzeVars

\* handleCellSelect.
HandleCellSelect ==
  /\ \E cell \in SelectCells : selectedCell' = cell
  /\ Handled("select", FALSE)
  /\ UNCHANGED <<gameState, isComplete, gameStarted, storage, now>>
  /\ UNCHANGED solverVars
  /\ UNCHANGED editorVars
  /\ UNCHANGED renderVars
  /\ UNCHANGED searchVars
  /\ UNCHANGED analyzeVars

\* A number button: handleNumberInput, then the effects of the render.
HandleNumberInput ==
  /\ \E number \in 1..MaxDigit :
       Becomes(completionEffect(handleNumberInput(Component, number, now), now))
  /\ Handled("input", inputRejected(Component))
  /\ UNCHANGED now
  /\ UNCHANGED solverVars
  /\ UNCHANGED editorVars
  /\ HeaderTold
  /\ UNCHANGED progress
  /\ UNCHANGED searchVars
  /\ UNCHANGED analyzeVars

\* The clear button: handleClearCell, then the effects of the render.
HandleClearCell ==
  /\ Becomes(completionEffect(handleClearCell(Component, now), now))
  /\ Handled("clear", inputRejected(Component))
  /\ UNCHANGED now
  /\ UNCHANGED solverVars
  /\ UNCHANGED editorVars
  /\ HeaderTold
  /\ UNCHANGED progress
  /\ UNCHANGED searchVars
  /\ UNCHANGED analyzeVars

HandleToggleMemoryMode ==
  /\ Becomes(handleToggleMemoryMode(Component, now))
  /\ Handled("toggleMemoryMode", isComplete)
  /\ UNCHANGED now
  /\ UNCHANGED solverVars
  /\ UNCHANGED editorVars
  /\ HeaderTold
  /\ UNCHANGED progress
  /\ UNCHANGED searchVars
  /\ UNCHANGED analyzeVars

HandleClearAllMemos ==
  /\ Becomes(handleClearAllMemos(Component, now))
  /\ Handled("clearAllMemos", isComplete)
  /\ UNCHANGED now
  /\ UNCHANGED solverVars
  /\ UNCHANGED editorVars
  /\ HeaderTold
  /\ UNCHANGED progress
  /\ UNCHANGED searchVars
  /\ UNCHANGED analyzeVars

\* The reset button: window.confirm answers, and on true
\* handleResetToInitial changes the state; then the effects.
HandleResetToInitial ==
  /\ \E confirm \in BOOLEAN :
       /\ Becomes(IF confirm
                  THEN completionEffect(handleResetToInitial(Component, now), now)
                  ELSE Component)
       /\ Handled("reset", ~confirm)
  /\ UNCHANGED now
  /\ UNCHANGED solverVars
  /\ UNCHANGED editorVars
  /\ HeaderTold
  /\ UNCHANGED progress
  /\ UNCHANGED searchVars
  /\ UNCHANGED analyzeVars

\* handleManualSave: the state is written to storage.
HandleManualSave ==
  /\ storage' = <<saveCurrentGame(gameState)>>
  /\ Handled("manualSave", FALSE)
  /\ UNCHANGED <<gameState, selectedCell, isComplete, gameStarted, now>>
  /\ UNCHANGED solverVars
  /\ UNCHANGED editorVars
  /\ UNCHANGED renderVars
  /\ UNCHANGED searchVars
  /\ UNCHANGED analyzeVars

\* The timer of the auto-save effect fires: the effect set it on the state
\* of a game not complete, and clears it when the state is replaced.
AutoSave ==
  /\ ~isComplete
  /\ storage' = <<saveCurrentGame(gameState)>>
  /\ Handled("autoSave", FALSE)
  /\ UNCHANGED <<gameState, selectedCell, isComplete, gameStarted, now>>
  /\ UNCHANGED solverVars
  /\ UNCHANGED editorVars
  /\ UNCHANGED renderVars
  /\ UNCHANGED searchVars
  /\ UNCHANGED analyzeVars

\* The page is loaded again: the component mounts on what storage holds,
\* and HeaderController, where there is one, begins anew.
Reload ==
  /\ Becomes(mount(storage, now))
  /\ Handled("mount", FALSE)
  /\ UNCHANGED now
  /\ UNCHANGED solverVars
  /\ UNCHANGED editorVars
  /\ header' = IF header = None THEN None
               ELSE headerVisibilityEffect(HeaderController, isComplete', gameStarted')
  /\ UNCHANGED progress
  /\ UNCHANGED searchVars
  /\ UNCHANGED analyzeVars

GameNext ==
  \/ Tick
  \/ HandleCellSelect
  \/ HandleNumberInput
  \/ HandleClearCell
  \/ HandleToggleMemoryMode
  \/ HandleClearAllMemos
  \/ HandleResetToInitial
  \/ HandleManualSave
  \/ AutoSave
  \/ Reload

\* ------------------------------------------------------ the editor's runs

\* The editor handles at most MaxEdits events in a run.
MaxEdits == 4

\* The cells clicked and the places of the text retyped: the two empty
\* neighbours of the first row.
EditorCells == {<<0, 7>>, <<0, 8>>}

\* The characters typed: numbers, the marks of an empty cell, an invalid one.
TextChars == {"1", "2", ".", " ", "x"}

\* The grids the analysis of a photo hands over: two empty neighbours; the
\* rectangle of two completions emptied; a full grid with a clash.
PhotoGrids ==
  {InputGrid({<<0, 7>>, <<0, 8>>}, <<>>),
   InputGrid({<<0, 3>>, <<0, 4>>, <<3, 3>>, <<3, 4>>}, <<>>),
   InputGrid({}, <<<<0, 8>>, 1>>)}

\* The values of the text area after a stroke: a character of the first
\* line retyped, or the last line deleted.
TextValues(text) ==
  IF text = <<>> THEN {}
  ELSE {[text EXCEPT ![cell[1] + 1][cell[2] + 1] = char] :
          cell \in EditorCells, char \in TextChars}
         \cup {SubSeq(text, 1, Len(text) - 1)}

EditorStart ==
  /\ step = "upload"
  /\ editor = None
  /\ offered = None

\* The island at rest, in the runs of the other components.
EditorIdle ==
  /\ step = "idle"
  /\ editor = None
  /\ offered = None

\* No game is played in the editor's runs before the redirect.
GameWaiting ==
  /\ now = 0
  /\ gameState = createInitialState(SAMPLE_PUZZLE, 0)
  /\ selectedCell = NoCell
  /\ isComplete = FALSE
  /\ gameStarted = FALSE
  /\ storage \in {<<>>, <<saveCurrentGame(createInitialState(SAMPLE_PUZZLE, 0))>>}
  /\ lastOp = [name |-> "idle", rejected |-> FALSE]
  /\ events = 0

\* An event of the editor is handled: it is counted and remembered.
Edited(name, rejected) ==
  /\ events < MaxEdits
  /\ events' = events + 1
  /\ lastOp' = [name |-> name, rejected |-> rejected]

EditorFrame ==
  /\ UNCHANGED <<gameState, selectedCell, isComplete, gameStarted, now>>
  /\ UNCHANGED solverVars
  /\ UNCHANGED renderVars
  /\ UNCHANGED searchVars
  /\ UNCHANGED analyzeVars

\* handlePhotoAnalyzed(result): a grid was recognised, or none.
HandlePhotoAnalyzed ==
  /\ step = "upload"
  /\ \/ \E g \in PhotoGrids :
          /\ step' = "edit"
          /\ editor' = PuzzleEditor(g)
          /\ Edited("photoAnalyzed", FALSE)
     \/ /\ UNCHANGED <<step, editor>>
        /\ Edited("photoAnalyzed", TRUE)
  /\ UNCHANGED <<offered, storage>>
  /\ EditorFrame

\* A cell of the editor's board is clicked (the board is disabled in text
\* mode).
EditorHandleCellClick ==
  /\ step = "edit"
  /\ editor.editMode = "ui"
  /\ \E cell \in EditorCells : editor' = handleCellClick(editor, cell[1], cell[2])
  /\ Edited("cellClick", FALSE)
  /\ UNCHANGED <<step, offered, storage>>
  /\ EditorFrame

\* A number button or the delete button of the editor (shown in ui mode,
\* disabled without a selected cell).
EditorHandleNumberInput ==
  /\ step = "edit"
  /\ editor.editMode = "ui"
  /\ editor.selectedCell # NoCell
  /\ \E number \in 0..MaxDigit : editor' = editorHandleNumberInput(editor, number)
  /\ Edited("editorInput", FALSE)
  /\ UNCHANGED <<step, offered, storage>>
  /\ EditorFrame

HandleModeChange ==
  /\ step = "edit"
  /\ \E newMode \in {"ui", "text"} :
       /\ editor' = handleModeChange(editor, newMode)
       /\ Edited("modeChange",
                 newMode = "ui" /\ editor.editMode = "text"
                   /\ stringToGrid(editor.textInput) = None)
  /\ UNCHANGED <<step, offered, storage>>
  /\ EditorFrame

\* The text area (shown in text mode) changes.
HandleTextChange ==
  /\ step = "edit"
  /\ editor.editMode = "text"
  /\ \E value \in TextValues(editor.textInput) :
       editor' = handleTextChange(editor, value)
  /\ Edited("textChange", FALSE)
  /\ UNCHANGED <<step, offered, storage>>
  /\ EditorFrame

\* The apply button (shown in text mode, disabled while textError is set).
ApplyTextChanges ==
  /\ step = "edit"
  /\ editor.editMode = "text"
  /\ ~editor.textError
  /\ editor' = applyTextChanges(editor)
  /\ Edited("applyText", FALSE)
  /\ UNCHANGED <<step, offered, storage>>
  /\ EditorFrame

\* handlePuzzleSaved has returned done.
PuzzleSaved(done) ==
  /\ storage' = done.storage
  /\ step' = IF done.redirected THEN "game" ELSE step
  /\ Edited("save", ~done.redirected)

\* handleSave has returned saved: onSave, when called, is handlePuzzleSaved.
Saved(saved) ==
  /\ editor' = saved.editor
  /\ offered' = saved.onSave
  /\ IF saved.onSave = None
     THEN /\ UNCHANGED <<step, storage>>
          /\ Edited("save", TRUE)
     ELSE PuzzleSaved(handlePuzzleSaved(storage, saved.onSave, now))

\* The save button (disabled while errors has a cell, and in text mode
\* while textError is set): handleSave and, when it hands a grid to onSave,
\* handlePuzzleSaved.
HandleSave ==
  /\ step = "edit"
  /\ editor.errors = {}
  /\ ~(editor.editMode = "text" /\ editor.textError)
  /\ \E proceed \in BOOLEAN : Saved(handleSave(editor, proceed))
  /\ EditorFrame

\* handleCancel in the edit step: back to the upload.
HandleCancel ==
  /\ step = "edit"
  /\ step' = "upload"
  /\ editor' = None
  /\ Edited("cancel", FALSE)
  /\ UNCHANGED <<offered, storage>>
  /\ EditorFrame

EditorNext ==
  \/ HandlePhotoAnalyzed
  \/ EditorHandleCellClick
  \/ EditorHandleNumberInput
  \/ HandleModeChange
  \/ HandleTextChange
  \/ ApplyTextChanges
  \/ HandleSave
  \/ HandleCancel

\* ------------------------------------------------- the progress shown
\* SudokuGame renders calculateProgress(gameState.currentGrid,
\* gameState.puzzle.initialGrid) of the game it mounted on.

\* The stored games have at most MaxEmpty cells that are not given.
MaxEmpty == 40

\* The puzzle on the sample solution whose first total cells (row by row)
\* are not given.
PuzzleWithEmpties(total) ==
  [initialGrid |->
     [r \in Idx |-> [c \in Idx |-> IF 9 * r + c < total THEN 0 ELSE SampleSolution[r][c]]],
   solution |-> SampleSolution,
   source |-> "upload"]

\* A game on that puzzle with the first filled of these cells filled in: by
\* the solution's numbers, or by other numbers when wrong.
GameWithFilled(total, filled, wrong) ==
  [createInitialState(PuzzleWithEmpties(total), 0) EXCEPT
     !.currentGrid =
       [r \in Idx |->
          [c \in Idx |->
             IF 9 * r + c >= filled THEN PuzzleWithEmpties(total).initialGrid[r][c]
             ELSE IF wrong THEN (SampleSolution[r][c] % 9) + 1
             ELSE SampleSolution[r][c]]]]

\* The component has mounted on mounted, at time 0.
Mounted(mounted) ==
  /\ gameState = mounted.gameState
  /\ selectedCell = mounted.selectedCell
  /\ isComplete = mounted.isComplete
  /\ gameStarted = mounted.gameStarted
  /\ storage = mounted.storage

ProgressStart ==
  /\ now = 0
  /\ \E total \in 0..MaxEmpty : \E filled \in 0..total : \E wrong \in BOOLEAN :
       Mounted(mount(<<saveCurrentGame(GameWithFilled(total, filled, wrong))>>, 0))
  /\ lastOp = [name |-> "mount", rejected |-> FALSE]
  /\ events = 0
  /\ progress = <<>>
  /\ header = None

\* Nothing is rendered in the runs of the other components, and SudokuGame
\* stands on the page without HeaderController.
ProgressIdle ==
  /\ progress = <<>>
  /\ header = None

\* The render of SudokuGame: the progress bar's percentage.
RenderProgress ==
  /\ progress = <<>>
  /\ progress' = <<calculateProgress(gameState.currentGrid, gameState.puzzle.initialGrid)>>
  /\ UNCHANGED header
  /\ UNCHANGED gameVars
  /\ UNCHANGED solverVars
  /\ UNCHANGED editorVars
  /\ UNCHANGED searchVars
  /\ UNCHANGED analyzeVars

ProgressNext == RenderProgress

\* ------------------------------------------------- the header of the game
\* SudokuGame inside HeaderController: the game tells the header when it
\* starts and when it is complete, and the player hides and shows the
\* header.

\* The game mounts on the stored puzzle with one empty cell, (0, 7), and
\* the effect's first call has been made.
HeaderStart ==
  /\ now = 0
  /\ Mounted(mount(<<saveCurrentGame(
                       createInitialState(
                         createPuzzleFromPhoto(InputGrid({<<0, 7>>}, <<>>)), 0))>>, 0))
  /\ lastOp = [name |-> "mount", rejected |-> FALSE]
  /\ events = 0
  /\ progress = <<>>
  /\ header = headerVisibilityEffect(HeaderController, isComplete, gameStarted)

\* A handler of HeaderController has left the state h: when the state has
\* changed, the render hands SudokuGame a new handleGameStateChange, so the
\* header-visibility effect runs again.
HeaderBecomes(h) ==
  /\ header' = IF h = header THEN header
               ELSE headerVisibilityEffect(h, isComplete, gameStarted)
  /\ UNCHANGED progress
  /\ UNCHANGED gameVars
  /\ UNCHANGED solverVars
  /\ UNCHANGED editorVars
  /\ UNCHANGED searchVars
  /\ UNCHANGED analyzeVars

\* The button that hides the header, on a header shown or peeking.
HandleHideHeader ==
  /\ header # None
  /\ header.isHeaderVisible \/ header.isHeaderPeeking
  /\ HeaderBecomes(handleHideHeader(header))

\* The indicator, shown while the header is neither visible nor peeking.
HandleIndicatorClick ==
  /\ header # None
  /\ ~header.isHeaderVisible /\ ~header.isHeaderPeeking
  /\ HeaderBecomes(handleIndicatorClick(header))

\* A click on a header shown or peeking.
HandleHeaderClick ==
  /\ header # None
  /\ header.isHeaderVisible \/ header.isHeaderPeeking
  /\ HeaderBecomes(handleHeaderClick(header))

\* The pointer moves over the strip at the top, there while the header is
\* not visible.
HandleMouseMove ==
  /\ header # None
  /\ ~header.isHeaderVisible
  /\ \E clientY \in {40, 75, 120} : HeaderBecomes(handleMouseMove(header, clientY))

HeaderNext ==
  \/ GameNext
  \/ HandleHideHeader
  \/ HandleIndicatorClick
  \/ HandleHeaderClick
  \/ HandleMouseMove

\* ------------------------------------------------------ the memo grids
\* toggleMemo and autoRemoveMemos called on the memo grids they make of
\* the empty one.

\* The cells they are called at: (0, 7) and the cells of MemoCells.
MemoArguments == {<<0, 7>>} \cup MemoCells

\* The numbers they are called with.
MemoNumbers == {1, 2}

\* The function that was called is remembered in lastOp.
MemoGridBecomes(name, memoGrid) ==
  /\ gameState' = [gameState EXCEPT !.memoGrid = memoGrid]
  /\ lastOp' = [name |-> name, rejected |-> FALSE]
  /\ UNCHANGED <<selectedCell, isComplete, gameStarted, storage, now, events>>
  /\ UNCHANGED solverVars
  /\ UNCHANGED editorVars
  /\ UNCHANGED renderVars
  /\ UNCHANGED searchVars
  /\ UNCHANGED analyzeVars

CallToggleMemo ==
  \E cell \in MemoArguments : \E number \in MemoNumbers :
    MemoGridBecomes("toggleMemo",
                    toggleMemo(gameState.memoGrid, cell[1], cell[2], number))

CallAutoRemoveMemos ==
  \E cell \in MemoArguments : \E number \in MemoNumbers :
    MemoGridBecomes("autoRemoveMemos",
                    autoRemoveMemos(gameState.memoGrid, cell[1], cell[2], number))

MemoNext ==
  \/ CallToggleMemo
  \/ CallAutoRemoveMemos

\* ------------------------------------------------- the search, step by step
\* solveSudokuRecursive and findAllSolutions as the engine runs them: the
\* calls in progress are the frames of searchStack, and a step is the entry
\* of a call, one pass of a for loop, or a return to the caller.

\* The grids searched: the all-zero grid; a grid with two completions; a
\* grid within the rules without a completion; a full grid and a grid with
\* empty cells whose givens clash; the sample solution; the sample puzzle.
SearchInputs ==
  {EmptyGrid,
   InputGrid({<<0, 3>>, <<0, 4>>, <<3, 3>>, <<3, 4>>}, <<>>),
   InputGrid({<<0, 3>>, <<0, 4>>, <<3, 3>>}, <<<<0, 3>>, 7>>),
   InputGrid({}, <<<<0, 3>>, 1>>),
   InputGrid({<<0, 4>>, <<0, 8>>}, <<<<0, 3>>, 1>>),
   SampleSolution,
   SampleInitial}

SearchStart ==
  /\ searchKind \in {"solve", "unique"}
  /\ searchInput \in SearchInputs
  /\ searchGrid = CopyGrid(searchInput)
  /\ searchStack = <<>>
  /\ searchSolutions = <<>>
  /\ searchReturned = FALSE
  /\ searchPc = "enter"

\* No search runs in the runs of the other components.
SearchIdle ==
  /\ searchKind = "idle"
  /\ searchInput = EmptyGrid
  /\ searchGrid = EmptyGrid
  /\ searchStack = <<>>
  /\ searchSolutions = <<>>
  /\ searchReturned = FALSE
  /\ searchPc = "idle"

SearchFrame ==
  /\ UNCHANGED <<searchKind, searchInput>>
  /\ UNCHANGED gameVars
  /\ UNCHANGED solverVars
  /\ UNCHANGED editorVars
  /\ UNCHANGED renderVars
  /\ UNCHANGED analyzeVars

\* The frame of the innermost call.
TopFrame == searchStack[Len(searchStack)]

\* The stack with the top frame's num one higher (num++).
NextNum == [searchStack EXCEPT ![Len(searchStack)].num = @ + 1]

\* The stack without its top frame.
Popped == SubSeq(searchStack, 1, Len(searchStack) - 1)

\* A call finds emptyCell and begins its loop.
Entered(emptyCell) ==
  /\ searchStack' =
       Append(searchStack, [row |-> emptyCell[1], col |-> emptyCell[2], num |-> 1])
  /\ searchPc' = "loop"

\* solveSudokuRecursive is entered: it returns true on a grid without an
\* empty cell, else it begins the loop at the first empty cell.
SolveEnter ==
  /\ searchKind = "solve"
  /\ searchPc = "enter"
  /\ IF findEmptyCell(searchGrid) = NoCell
     THEN /\ searchReturned' = TRUE
          /\ searchPc' = "return"
          /\ UNCHANGED searchStack
     ELSE /\ Entered(findEmptyCell(searchGrid))
          /\ UNCHANGED searchReturned
  /\ UNCHANGED <<searchGrid, searchSolutions>>
  /\ SearchFrame

\* One pass of the loop of either search with num <= 9: a number
\* isValidMove accepts is placed and the search called on the grid, another
\* is passed over.
TryNumber ==
  /\ searchPc = "loop"
  /\ TopFrame.num <= 9
  /\ IF isValidMove(searchGrid, TopFrame.row, TopFrame.col, TopFrame.num)
     THEN /\ searchGrid' = SetCell(searchGrid, TopFrame.row, TopFrame.col, TopFrame.num)
          /\ searchPc' = "enter"
          /\ UNCHANGED searchStack
     ELSE /\ searchStack' = NextNum
          /\ UNCHANGED <<searchGrid, searchPc>>
  /\ UNCHANGED <<searchSolutions, searchReturned>>

\* A pass of the loop of solveSudokuRecursive.
SolveTry ==
  /\ searchKind = "solve"
  /\ TryNumber
  /\ SearchFrame

\* The loop of solveSudokuRecursive has passed 9: return false.
SolveExhausted ==
  /\ searchKind = "solve"
  /\ searchPc = "loop"
  /\ TopFrame.num > 9
  /\ searchStack' = Popped
  /\ searchReturned' = FALSE
  /\ searchPc' = "return"
  /\ UNCHANGED <<searchGrid, searchSolutions>>
  /\ SearchFrame

\* A plausible slip: after a call that returned false the loop goes on at
\* the same number.
SolveReturnSameNumber ==
  /\ searchKind = "solve"
  /\ searchPc = "return"
  /\ IF searchStack = <<>>
     THEN /\ searchPc' = "done"
          /\ UNCHANGED <<searchGrid, searchStack>>
     ELSE IF searchReturned
     THEN /\ searchStack' = Popped
          /\ UNCHANGED <<searchGrid, searchPc>>
     ELSE /\ searchGrid' = SetCell(searchGrid, TopFrame.row, TopFrame.col, 0)
          /\ searchPc' = "loop"
          /\ UNCHANGED searchStack
  /\ UNCHANGED <<searchSolutions, searchReturned>>
  /\ SearchFrame

\* A call of solveSudokuRecursive has returned to its caller: the outermost
\* to solveSudoku; an inner one that returned true makes its caller return
\* true, one that returned false has its number taken back and the loop
\* goes on.
SolveReturn ==
  /\ searchKind = "solve"
  /\ searchPc = "return"
  /\ IF searchStack = <<>>
     THEN /\ searchPc' = "done"
          /\ UNCHANGED <<searchGrid, searchStack>>
     ELSE IF searchReturned
     THEN /\ searchStack' = Popped
          /\ UNCHANGED <<searchGrid, searchPc>>
     ELSE /\ searchGrid' = SetCell(searchGrid, TopFrame.row, TopFrame.col, 0)
          /\ searchStack' = NextNum
          /\ searchPc' = "loop"
  /\ UNCHANGED <<searchSolutions, searchReturned>>
  /\ SearchFrame

\* findAllSolutions is entered: it returns at once when solutions holds
\* maxSolutions (2) grids, records a grid without an empty cell and returns,
\* else begins the loop at the first empty cell.
UniqueEnter ==
  /\ searchKind = "unique"
  /\ searchPc = "enter"
  /\ IF Len(searchSolutions) >= 2
     THEN /\ searchPc' = "return"
          /\ UNCHANGED <<searchStack, searchSolutions>>
     ELSE IF findEmptyCell(searchGrid) = NoCell
     THEN /\ searchSolutions' = Append(searchSolutions, CopyGrid(searchGrid))
          /\ searchPc' = "return"
          /\ UNCHANGED searchStack
     ELSE /\ Entered(findEmptyCell(searchGrid))
          /\ UNCHANGED searchSolutions
  /\ UNCHANGED <<searchGrid, searchReturned>>
  /\ SearchFrame

\* A pass of the loop of findAllSolutions.
UniqueTry ==
  /\ searchKind = "unique"
  /\ TryNumber
  /\ SearchFrame

\* The loop of findAllSolutions has passed 9: return.
UniqueExhausted ==
  /\ searchKind = "unique"
  /\ searchPc = "loop"
  /\ TopFrame.num > 9
  /\ searchStack' = Popped
  /\ searchPc' = "return"
  /\ UNCHANGED <<searchGrid, searchSolutions, searchReturned>>
  /\ SearchFrame

\* A call of findAllSolutions has returned to its caller: the outermost to
\* hasUniqueSolution; after an inner one the number is taken back and the
\* loop goes on.
UniqueReturn ==
  /\ searchKind = "unique"
  /\ searchPc = "return"
  /\ IF searchStack = <<>>
     THEN /\ searchPc' = "done"
          /\ searchReturned' = (Len(searchSolutions) = 1)
          /\ UNCHANGED <<searchGrid, searchStack>>
     ELSE /\ searchGrid' = SetCell(searchGrid, TopFrame.row, TopFrame.col, 0)
          /\ searchStack' = NextNum
          /\ searchPc' = "loop"
          /\ UNCHANGED searchReturned
  /\ UNCHANGED searchSolutions
  /\ SearchFrame

SearchNext ==
  \/ SolveEnter
  \/ SolveTry
  \/ SolveExhausted
  \/ SolveReturn
  \/ UniqueEnter
  \/ UniqueTry
  \/ UniqueExhausted
  \/ UniqueReturn

\* ------------------------------------------------- the analysis of a photo
\* The upload step: the client posts the photo, the route answers, and the
\* editor opens on the grid of a successful result.

\* The answers of the model: the grids of PhotoGrids as JSON, and the first
\* of them with one defect: no grid, a grid that is no array, no row, a row
\* too few or too many, a row that is no array of nine cells, a cell that
\* is no integer of 0..9 (-1, 10, 1.5, "5", null).
ParsedResults ==
  LET Cell(type, integer, n) ==
        [type |-> type, integer |-> integer, value |-> n]
      Row(cells) == [type |-> "array", cells |-> cells]
      Grid(type, rows) == [grid |-> [type |-> type, rows |-> rows]]
      RowsOf(g) ==
        [i \in 1..9 |->
           Row([j \in 1..9 |-> Cell("number", TRUE, g[i - 1][j - 1])])]
      rows == RowsOf(InputGrid({<<0, 7>>, <<0, 8>>}, <<>>))
      defectRows ==
        {Row(SubSeq(rows[1].cells, 1, 8)),
         Row(Append(rows[1].cells, Cell("number", TRUE, 0))),
         [type |-> "object", cells |-> <<>>]}
      defectCells ==
        {Cell("number", TRUE, -1), Cell("number", TRUE, 10),
         Cell("number", FALSE, 1), Cell("string", FALSE, 5),
         Cell("null", FALSE, 0)}
  IN {Grid("array", RowsOf(g)) : g \in PhotoGrids}
       \cup {Grid("undefined", <<>>), Grid("object", <<>>),
             Grid("array", <<>>),
             Grid("array", SubSeq(rows, 1, 8)),
             Grid("array", Append(rows, rows[1]))}
       \cup {Grid("array", [rows EXCEPT ![i] = row]) :
               i \in {1, 9}, row \in defectRows}
       \cup {Grid("array", [rows EXCEPT ![i].cells[5] = cell]) :
               i \in {1, 9}, cell \in defectCells}

\* The session of a request: the e-mail of the allowed user b, of the user
\* m, who is not allowed, no e-mail, and an e-mail that is no string.
Sessions ==
  LET Auth(type, chars) ==
        [type |-> "object", email |-> [type |-> type, chars |-> chars]]
  IN [b |-> Auth("string", <<"b">>), m |-> Auth("string", <<"m">>),
      none |-> Auth("undefined", <<>>), other |-> Auth("object", <<>>)]

\* The requests to analyze-image, ALLOW_USERS being "a, b": the allowed
\* user's with an image, and that request with one defect: no API key, no
\* image, another session.
ImageRequests ==
  LET Posted(apiKey, auth, image) ==
        [route |-> "analyze-image", apiKey |-> apiKey,
         ALLOW_USERS |-> <<<<"a">>, <<" ", "b">>>>, auth |-> auth,
         image |-> image]
  IN {Posted(TRUE, Sessions.b, TRUE), Posted(FALSE, Sessions.b, TRUE),
      Posted(TRUE, Sessions.b, FALSE)}
       \cup {Posted(TRUE, Sessions[user], TRUE) : user \in {"m", "none", "other"}}

\* The requests to analyze-sudoku, ALLOW_USERS being "a, b": the allowed
\* user's with the two grids, and that request with one defect: no API
\* key, a grid missing, another session.
SudokuRequests ==
  LET Posted(apiKey, auth, currentGrid, initialGrid) ==
        [route |-> "analyze-sudoku", apiKey |-> apiKey,
         ALLOW_USERS |-> <<<<"a">>, <<" ", "b">>>>, auth |-> auth,
         currentGrid |-> currentGrid, initialGrid |-> initialGrid]
  IN {Posted(TRUE, Sessions.b, TRUE, TRUE),
      Posted(FALSE, Sessions.b, TRUE, TRUE),
      Posted(TRUE, Sessions.b, FALSE, TRUE),
      Posted(TRUE, Sessions.b, TRUE, FALSE)}
       \cup {Posted(TRUE, Sessions[user], TRUE, TRUE) : user \in {"m", "none"}}

\* Gemini's answers to a request for a hint: a hint, and one failure of
\* each kind the handler looks for.
GeminiAnswers ==
  LET Answer(ok, error, candidates, json, technique, description) ==
        [ok |-> ok, error |-> error, candidates |-> candidates,
         json |-> json, technique |-> technique, description |-> description]
  IN {Answer(TRUE, "", 1, TRUE, "single position", "R3C5 is 7"),
      Answer(FALSE, "", 0, FALSE, "", ""),
      Answer(TRUE, "quota exceeded", 0, FALSE, "", ""),
      Answer(TRUE, "", 0, FALSE, "", ""),
      Answer(TRUE, "", 1, FALSE, "", ""),
      Answer(TRUE, "", 1, TRUE, "", "R3C5 is 7"),
      Answer(TRUE, "", 1, TRUE, "single position", "")}

\* A request for a hint with the answer Gemini would give: every answer
\* to the allowed user's request, a hint to the others.
SudokuExchanges ==
  {exchange \in SudokuRequests \X GeminiAnswers :
     exchange[1].auth = Sessions.b \/ exchange[2].technique = "single position"}

\* No request is under way.
AnalyzeIdle ==
  /\ parsedResult = None
  /\ response = None
  /\ isAnalyzing = FALSE
  /\ request = None
  /\ geminiCalled = FALSE
  /\ hint = None

\* The analyze button (disabled while isAnalyzing): handleAnalyze posts the
\* photo, and the route either returns early or calls Gemini, validates the
\* answer and sends the response.
AnalyzeImage ==
  /\ step = "upload"
  /\ ~isAnalyzing
  /\ events < MaxEdits
  /\ isAnalyzing' = TRUE
  /\ \E posted \in ImageRequests, parsed \in ParsedResults :
       LET handled == analyzeImage(posted, parsed)
       IN /\ request' = posted
          /\ geminiCalled' = handled.called
          /\ parsedResult' = IF handled.called THEN parsed ELSE None
          /\ response' = handled.response
  /\ hint' = hint
  /\ UNCHANGED gameVars
  /\ UNCHANGED solverVars
  /\ UNCHANGED editorVars
  /\ UNCHANGED renderVars
  /\ UNCHANGED searchVars

\* The client has the result result of analyzeImageWithGemini:
\* handleAnalyze hands it to handlePhotoAnalyzed, or shows the error.
Analyzed(result) ==
  IF result # None
  THEN /\ step' = "edit"
       /\ editor' = PuzzleEditor(result.grid)
       /\ Edited("photoAnalyzed", FALSE)
  ELSE /\ UNCHANGED <<step, editor>>
       /\ Edited("photoAnalyzed", TRUE)

\* handleAnalyze once the response has arrived.
HandleAnalyze ==
  /\ step = "upload"
  /\ isAnalyzing
  /\ \E isLocalDevelopment \in BOOLEAN :
       Analyzed(analyzeImageWithGemini(response, isLocalDevelopment))
  /\ isAnalyzing' = FALSE
  /\ UNCHANGED <<parsedResult, response, request, geminiCalled, hint>>
  /\ UNCHANGED <<offered, storage>>
  /\ UNCHANGED <<gameState, selectedCell, isComplete, gameStarted, now>>
  /\ UNCHANGED solverVars
  /\ UNCHANGED renderVars
  /\ UNCHANGED searchVars

\* The hint button of the game (or any other client) posts to
\* analyze-sudoku, and the route answers.
AnalyzeSudoku ==
  /\ ~isAnalyzing
  /\ \E exchange \in SudokuExchanges :
       LET handled == analyzeSudoku(exchange[1], exchange[2], now)
       IN /\ request' = exchange[1]
          /\ geminiCalled' = handled.called
          /\ hint' = handled.response
  /\ UNCHANGED <<parsedResult, response, isAnalyzing>>
  /\ UNCHANGED gameVars
  /\ UNCHANGED solverVars
  /\ UNCHANGED editorVars
  /\ UNCHANGED renderVars
  /\ UNCHANGED searchVars

\* The two routes at work: photos are analysed and hints asked for.
AccessNext ==
  \/ AnalyzeImage
  \/ HandleAnalyze
  \/ AnalyzeSudoku

\* The upload and the editing that follows it, up to the save.
AnalyzeNext ==
  \/ AnalyzeImage
  \/ HandleAnalyze
  \/ EditorHandleCellClick
  \/ EditorHandleNumberInput
  \/ HandleModeChange
  \/ HandleTextChange
  \/ ApplyTextChanges
  \/ HandleCancel

\* ------------------------------------------------------ the specifications

\* The game: SudokuGame on a stored or sample puzzle.
Init ==
  GameStart /\ SolverIdle /\ EditorIdle /\ ProgressIdle /\ SearchIdle
    /\ AnalyzeIdle
Next == GameNext
Spec == Init /\ [][Next]_vars

\* The solver and the uniqueness check on a grid.
SolverInit ==
  SolverStart /\ GameIdle /\ EditorIdle /\ ProgressIdle /\ SearchIdle
    /\ AnalyzeIdle
SolverSpec == SolverInit /\ [][SolverNext]_vars

\* CreatePuzzle: a photo is analysed, the grid edited and saved.
EditorInit ==
  EditorStart /\ GameWaiting /\ SolverIdle /\ ProgressIdle /\ SearchIdle
    /\ AnalyzeIdle
EditorSpec == EditorInit /\ [][EditorNext]_vars

\* The progress bar of a game in progress.
ProgressInit ==
  ProgressStart /\ SolverIdle /\ EditorIdle /\ SearchIdle
    /\ AnalyzeIdle
ProgressSpec == ProgressInit /\ [][ProgressNext]_vars

\* A search run to its end: the engine runs a call without interruption, so
\* a step that can be taken is taken.
SearchInit ==
  SearchStart /\ GameIdle /\ SolverIdle /\ EditorIdle /\ ProgressIdle
    /\ AnalyzeIdle
SearchSpec == SearchInit /\ [][SearchNext]_vars /\ WF_vars(SearchNext)

\* CreatePuzzle from the upload on: the route answers, the editor opens.
AnalyzeInit ==
  EditorStart /\ GameWaiting /\ SolverIdle /\ ProgressIdle /\ SearchIdle
    /\ AnalyzeIdle
AnalyzeSpec == AnalyzeInit /\ [][AnalyzeNext]_vars

\* The memo functions on the memo grids reached from the empty one.
MemoInit ==
  GameIdle /\ SolverIdle /\ EditorIdle /\ ProgressIdle /\ SearchIdle
    /\ AnalyzeIdle
MemoSpec == MemoInit /\ [][MemoNext]_vars

\* The game inside HeaderController.
HeaderInit ==
  HeaderStart /\ SolverIdle /\ EditorIdle /\ SearchIdle /\ AnalyzeIdle
HeaderSpec == HeaderInit /\ [][HeaderNext]_vars

\* The server's two routes to Gemini and their clients.
AccessInit ==
  EditorStart /\ GameWaiting /\ SolverIdle /\ ProgressIdle /\ SearchIdle
    /\ AnalyzeIdle
AccessSpec == AccessInit /\ [][AccessNext]_vars

\* ============================================================ properties

\* The given cells of a puzzle, and the cell a state has selected.
IsGiven(gs, cell) == gs.puzzle.initialGrid[cell[1]][cell[2]] # 0

\* Completed: completedAt has been stamped.
Completed(gs) == gs.completedAt # NoTime

\* The times a handler may read once the clock shows now.
Later == now..MaxTime

\* ---------------------------------------------------------------- C1
\* C1: in every state of the game, currentGrid holds the puzzle's number in
\* every given cell, and no step changes puzzle.initialGrid.
GivenCellsAgree ==
  \A cell \in Cells :
    IsGiven(gameState, cell)
      => gameState.currentGrid[cell[1]][cell[2]]
           = gameState.puzzle.initialGrid[cell[1]][cell[2]]

C1_GivenCellsKept ==
  /\ []GivenCellsAgree
  /\ [][gameState'.puzzle.initialGrid = gameState.puzzle.initialGrid]_vars

\* A number was pressed on a selected given cell of a game not yet complete,
\* on a board that already holds a number of the player's.
C1_Witness ==
  /\ lastOp = [name |-> "input", rejected |-> TRUE]
  /\ ~isComplete
  /\ selectedCell # NoCell
  /\ IsGiven(gameState, selectedCell)
  /\ \E cell \in Cells :
       ~IsGiven(gameState, cell) /\ gameState.currentGrid[cell[1]][cell[2]] # 0

\* ---------------------------------------------------------------- C2
\* C2: once the state is Completed, no step changes currentGrid, memoGrid or
\* isMemoryMode.
C2_CompletedTerminal ==
  [][Completed(gameState)
       => /\ gameState'.currentGrid = gameState.currentGrid
          /\ gameState'.memoGrid = gameState.memoGrid
          /\ gameState'.isMemoryMode = gameState.isMemoryMode]_vars

\* ---------------------------------------------------------------- C3
\* The three cases in which C3 has applyDigit return the state unchanged.
CaseCompleted(c) == Completed(c.gameState)
CaseGiven(c) == IsGiven(c.gameState, c.selectedCell)
CaseZeroOnEmpty(c, number) ==
  /\ ~c.gameState.isMemoryMode
  /\ number = 0
  /\ c.gameState.currentGrid[c.selectedCell[1]][c.selectedCell[2]] = 0

\* C3 as stated: with a cell selected, handleNumberInput leaves the whole
\* state (lastModified and timeSpent too) as it is in each of the three
\* cases.
C3_Original ==
  selectedCell # NoCell =>
    \A number \in 0..MaxDigit : \A t \in Later :
      (CaseCompleted(Component) \/ CaseGiven(Component)
         \/ CaseZeroOnEmpty(Component, number))
        => handleNumberInput(Component, number, t).gameState = gameState

\* C3 as amended: the state is left as it is when it is Completed or the
\* cell is given; a 0 put outside memory mode on a cell that holds 0 leaves
\* currentGrid and memoGrid as they are and sets lastModified to the time of
\* the call and timeSpent to the seconds since startedAt.
C3_Amended ==
  selectedCell # NoCell =>
    \A number \in 0..MaxDigit : \A t \in Later :
      LET after == handleNumberInput(Component, number, t)
      IN /\ (CaseCompleted(Component) \/ CaseGiven(Component))
              => after = Component
         /\ (CaseZeroOnEmpty(Component, number)
             /\ ~CaseCompleted(Component) /\ ~CaseGiven(Component))
              => /\ after.gameState.currentGrid = gameState.currentGrid
                 /\ after.gameState.memoGrid = gameState.memoGrid
                 /\ after.gameState.lastModified = t
                 /\ after.gameState.timeSpent = t - gameState.startedAt
                 /\ after.gameState
                      = [gameState EXCEPT !.lastModified = t,
                                          !.timeSpent = t - gameState.startedAt]
                 /\ after.storage = <<saveCurrentGame(after.gameState)>>

\* A number was pressed on a non-given cell of a Completed game, and
\* rejected.
C3_Witness ==
  /\ lastOp = [name |-> "input", rejected |-> TRUE]
  /\ Completed(gameState)
  /\ selectedCell # NoCell
  /\ ~IsGiven(gameState, selectedCell)

\* ---------------------------------------------------------------- C4
\* The cells of the row, the column and the block of cell, cell included.
Group(cell) ==
  {p \in Cells :
     \/ p[1] = cell[1]
     \/ p[2] = cell[2]
     \/ (p[1] \div 3 = cell[1] \div 3 /\ p[2] \div 3 = cell[2] \div 3)}

\* C4: a nonzero number committed outside memory mode to a non-given cell
\* of a game not complete is in currentGrid afterwards, the cell's memo set
\* is empty, and no cell of its row, column or block has the number in its
\* memo set.
C4_CommitClearsMemos ==
  (~inputRejected(Component) /\ ~gameState.isMemoryMode) =>
    \A number \in 1..9 : \A t \in Later :
      LET after == handleNumberInput(Component, number, t).gameState
      IN /\ after.currentGrid[selectedCell[1]][selectedCell[2]] = number
         /\ after.memoGrid[selectedCell[1]][selectedCell[2]] = {}
         /\ \A p \in Group(selectedCell) : number \notin after.memoGrid[p[1]][p[2]]

\* A number was committed to a cell that has memos left (of another
\* number) on a cell of its row only, of its column only and of its block
\* only.
C4_Witness ==
  /\ lastOp = [name |-> "input", rejected |-> FALSE]
  /\ ~gameState.isMemoryMode
  /\ selectedCell # NoCell
  /\ gameState.currentGrid[selectedCell[1]][selectedCell[2]] # 0
  /\ \E p \in Group(selectedCell) :
       p[1] = selectedCell[1] /\ p[2] \div 3 # selectedCell[2] \div 3
         /\ gameState.memoGrid[p[1]][p[2]] # {}
  /\ \E p \in Group(selectedCell) :
       p[2] = selectedCell[2] /\ p[1] \div 3 # selectedCell[1] \div 3
         /\ gameState.memoGrid[p[1]][p[2]] # {}
  /\ \E p \in Group(selectedCell) :
       p[1] # selectedCell[1] /\ p[2] # selectedCell[2]
         /\ gameState.memoGrid[p[1]][p[2]] # {}

\* ---------------------------------------------------------------- C9
\* C9: a state whose currentGrid equals the solution is Completed, with
\* timeSpent the seconds from startedAt to completedAt; and once completedAt
\* is stamped, no step changes completedAt or timeSpent.
CompletionDetected ==
  /\ isGameComplete(gameState.currentGrid, gameState.puzzle.solution)
       => (isComplete /\ Completed(gameState))
  /\ isComplete <=> Completed(gameState)
  /\ (Completed(gameState) /\ storage # <<>>)
       => /\ storage[1].completedAt = gameState.completedAt
          /\ storage[1].timeSpent = gameState.timeSpent

C9_CompletionStampedOnce ==
  /\ []CompletionDetected
  /\ [][Completed(gameState)
          => /\ gameState'.completedAt = gameState.completedAt
             /\ gameState'.timeSpent = gameState.timeSpent]_vars

\* The game was completed and, at a later time, reset.
C9_Witness ==
  /\ Completed(gameState)
  /\ lastOp = [name |-> "reset", rejected |-> FALSE]
  /\ gameState.lastModified > gameState.completedAt

\* ------------------------------------------------------- the sudoku rules
\* What the solver's results are measured against, stated from the rules and
\* not from the search.

\* Two different cells of one row, one column or one block.
Peers(p, q) == p # q /\ q \in Group(p)

\* No two different cells of a row, a column or a block hold the same
\* nonzero number.
RuleOK(g) ==
  \A p \in Cells : g[p[1]][p[2]] # 0 =>
    \A q \in Group(p) : q = p \/ g[q[1]][q[2]] # g[p[1]][p[2]]

Blanks(g) == {p \in Cells : g[p[1]][p[2]] = 0}

IsFull(g) == \A p \in Cells : g[p[1]][p[2]] \in 1..9

\* h has g's number wherever g has one.
Agrees(h, g) == \A p \in Cells : g[p[1]][p[2]] # 0 => h[p[1]][p[2]] = g[p[1]][p[2]]

\* h is a completion of g: full, with g's numbers, and within the rules.
IsCompletionOf(h, g) == IsFull(h) /\ Agrees(h, g) /\ RuleOK(h)

\* The numbers no filled cell of p's row, column or block holds in g.
Free(g, p) == {d \in 1..9 : \A q \in Group(p) : g[q[1]][q[2]] # d}

\* g with its blanks filled as f says.
Filled(g, f) ==
  [r \in Idx |-> [c \in Idx |-> IF g[r][c] = 0 THEN f[<<r, c>>] ELSE g[r][c]]]

\* The full grids reached from g by giving every blank a number free at it.
RECURSIVE Extensions(_)
Extensions(g) ==
  IF Blanks(g) = {} THEN {g}
  ELSE LET p == CHOOSE q \in Blanks(g) : TRUE
       IN UNION {Extensions(SetCell(g, p[1], p[2], d)) : d \in Free(g, p)}

\* All completions of a grid with few blanks.
Completions(g) == IF RuleOK(g) THEN Extensions(g) ELSE {}

\* How many completions g has, counted up to two.
CompletionsUpTo2(g) ==
  IF Cardinality(Completions(g)) >= 2 THEN 2 ELSE Cardinality(Completions(g))

\* ---------------------------------------------------------------- C5
\* C5: whenever solveSudoku returned a grid, validateGrid reports no cell of
\* it.
C5_SolvedGridHasNoConflict ==
  (pc \in {"solved", "checked"} /\ solveRet # None) => validateGrid(solveRet) = {}

\* ---------------------------------------------------------------- C6
\* C6: solveSudoku returns null exactly when the grid handed over has no
\* completion within the rules, and a grid it returns is such a completion.
C6_NoneIffNoCompletion ==
  pc \in {"solved", "checked"} =>
    /\ (solveRet = None) <=> (CompletionsUpTo2(givenGrid) = 0)
    /\ solveRet # None => IsCompletionOf(solveRet, givenGrid)

\* ---------------------------------------------------------------- C7
\* C7: after solveSudoku and after hasUniqueSolution the caller's array is
\* the grid handed over; a grid solveSudoku returned is full and has the
\* input's number wherever the input has one; for a full input within the
\* rules the grid returned is the input.
C7_CallerGridKept ==
  /\ grid = givenGrid
  /\ (pc \in {"solved", "checked"} /\ solveRet # None)
       => /\ IsFull(solveRet)
          /\ Agrees(solveRet, givenGrid)
  /\ (pc \in {"solved", "checked"} /\ IsFull(givenGrid)) => solveRet = givenGrid

\* Both calls have returned on a grid with empty cells, the first with a
\* grid.
C7_Witness ==
  /\ pc = "checked"
  /\ solveRet # None
  /\ Cardinality(Blanks(givenGrid)) >= 2

\* ---------------------------------------------------------------- C8
\* C8: hasUniqueSolution returns true exactly when the grid handed over has
\* one completion within the rules and no second one.
C8_TrueIffOneCompletion ==
  pc = "checked" => (uniqueRet <=> (CompletionsUpTo2(givenGrid) = 1))

\* On a grid that passes isValidSudokuPuzzle the three properties hold.
OnValidPuzzles ==
  isValidSudokuPuzzle(givenGrid)
    => (C5_SolvedGridHasNoConflict /\ C6_NoneIffNoCompletion /\ C8_TrueIffOneCompletion)

\* ---------------------------------------------------------------- C10
\* What storage holds before CreatePuzzle stores a game.
StorageBefore == {<<>>, <<saveCurrentGame(createInitialState(SAMPLE_PUZZLE, 0))>>}

\* C10: storage is replaced only by the redirecting handlePuzzleSaved, and
\* the game it then holds is on the grid handed to onSave, which is within
\* the rules and passes isValidSudokuPuzzle, with the grid solveSudoku
\* returns for it as the solution, a completion of the grid.
C10_StoredOnlyIfValidAndSolved ==
  /\ step # "game" => storage \in StorageBefore
  /\ step = "game" =>
       /\ offered # None
       /\ storage # <<>>
       /\ storage[1].puzzle.initialGrid = offered
       /\ storage[1].currentGrid = offered
       /\ RuleOK(offered)
       /\ isValidSudokuPuzzle(offered)
       /\ solveSudoku(offered).ret # None
       /\ storage[1].puzzle.solution = solveSudoku(offered).ret
       /\ IsCompletionOf(storage[1].puzzle.solution, offered)

\* A game was stored by a save from text mode, on a text that is not the
\* text of the editor's grid.
C10_Witness ==
  /\ step = "game"
  /\ lastOp = [name |-> "save", rejected |-> FALSE]
  /\ editor.editMode = "text"
  /\ offered # editor.grid

\* ---------------------------------------------------------------- C11
\* C11: on a grid without a completion within the rules, solveSudoku and
\* createPuzzleFromPhoto report the outcome by the value they return:
\* neither leaves by throwing.
C11_NoThrowOnUnsolvable ==
  (pc = "created" /\ CompletionsUpTo2(givenGrid) = 0)
    => ~created.thrown

\* ---------------------------------------------------------------- C12
\* The nonzero cells that share their number with a peer.
ClashCells(g) ==
  {p \in Cells :
     g[p[1]][p[2]] # 0 /\ \E q \in Group(p) : q # p /\ g[q[1]][q[2]] = g[p[1]][p[2]]}

\* C12: the cells reported for a grid are exactly its nonzero cells that
\* share their number with another cell of the same row, column or block:
\* every cell of a clash is reported, and no empty cell and no cell without
\* a clash is.
C12_ConflictsAreClashingCells ==
  pc = "validated" =>
    /\ conflicts = ClashCells(givenGrid)
    /\ findConflicts(givenGrid) = ClashCells(givenGrid)

\* A grid with an empty cell was validated, and three of the cells reported
\* hold the same number.
C12_Witness ==
  /\ pc = "validated"
  /\ Blanks(givenGrid) # {}
  /\ \E p, q, r \in conflicts :
       /\ p # q /\ q # r /\ p # r
       /\ givenGrid[p[1]][p[2]] = givenGrid[q[1]][q[2]]
       /\ givenGrid[q[1]][q[2]] = givenGrid[r[1]][r[2]]
  /\ \E p \in Cells : givenGrid[p[1]][p[2]] # 0 /\ p \notin conflicts

\* ------------------------------------------------------ the player's moves
\* A cell is selected that is not given, in a state not Completed.
Playable ==
  /\ selectedCell # NoCell
  /\ ~IsGiven(gameState, selectedCell)
  /\ ~Completed(gameState)

\* The grid after holds number at the selected cell and is currentGrid at
\* every other cell.
Taken(after, number) ==
  /\ after[selectedCell[1]][selectedCell[2]] = number
  /\ \A p \in Cells :
       p # selectedCell => after[p[1]][p[2]] = gameState.currentGrid[p[1]][p[2]]

\* The memo grid after holds memos at the selected cell and is memoGrid at
\* every other cell.
MemoSet(after, memos) ==
  /\ after[selectedCell[1]][selectedCell[2]] = memos
  /\ \A p \in Cells :
       p # selectedCell => after[p[1]][p[2]] = gameState.memoGrid[p[1]][p[2]]

\* ---------------------------------------------------------------- C13
\* C13: outside memory mode every number 0..9 put on a playable cell is
\* taken, whatever the cell's peers hold: afterwards currentGrid holds the
\* number at that cell and is as before at every other cell.
C13_ConflictsNeverBlock ==
  (Playable /\ ~gameState.isMemoryMode) =>
    \A number \in 0..9 :
      Taken(handleNumberInput(Component, number, now).gameState.currentGrid, number)

\* A number was taken that a peer of the cell holds too; the board now has
\* clashing cells, and the cell is still playable.
C13_Witness ==
  /\ lastOp = [name |-> "input", rejected |-> FALSE]
  /\ Playable
  /\ ~gameState.isMemoryMode
  /\ selectedCell \in ClashCells(gameState.currentGrid)
  /\ \E p \in ClashCells(gameState.currentGrid) :
       /\ p # selectedCell
       /\ gameState.currentGrid[p[1]][p[2]]
            = gameState.currentGrid[selectedCell[1]][selectedCell[2]]

\* ---------------------------------------------------------------- C14
\* The component once after number was put on the selected cell, whose memo
\* set was before.
Toggled(once, before, number) ==
  /\ MemoSet(once.gameState.memoGrid,
             IF number \in before THEN before \ {number} ELSE before \cup {number})
  /\ once.gameState.currentGrid = gameState.currentGrid
  /\ handleNumberInput(once, number, now).gameState.memoGrid = gameState.memoGrid

\* C14: in memory mode a number put on a playable cell joins the cell's memo
\* set when it is not in it and leaves it when it is; every other memo set
\* and currentGrid stay as they are; the same number put twice leaves
\* memoGrid as it was.
C14_MemoToggled ==
  (Playable /\ gameState.isMemoryMode) =>
    \A number \in 0..9 :
      Toggled(handleNumberInput(Component, number, now),
              gameState.memoGrid[selectedCell[1]][selectedCell[2]], number)

\* In memory mode a number was put on a cell and left its memo set empty:
\* the number was in the set and was taken out.
C14_Witness ==
  /\ lastOp = [name |-> "input", rejected |-> FALSE]
  /\ gameState.isMemoryMode
  /\ selectedCell # NoCell
  /\ gameState.memoGrid[selectedCell[1]][selectedCell[2]] = {}
  /\ \E p \in Cells : gameState.memoGrid[p[1]][p[2]] # {}

\* ---------------------------------------------------------------- C15
\* The component after the clear button was pressed.
Cleared(after) ==
  /\ (Playable /\ gameState.isMemoryMode)
       => /\ MemoSet(after.gameState.memoGrid, {})
          /\ after.gameState.currentGrid = gameState.currentGrid
  /\ (Playable /\ ~gameState.isMemoryMode)
       => /\ after = handleNumberInput(Component, 0, now)
          /\ after.gameState.currentGrid[selectedCell[1]][selectedCell[2]] = 0
          /\ after.gameState.memoGrid = gameState.memoGrid
  /\ ~Playable => after = Component

\* C15: handleClearCell on a playable cell in memory mode empties the cell's
\* memo set and leaves every other memo set and currentGrid as they are;
\* outside memory mode it leaves the component as handleNumberInput(0) does,
\* with 0 at the cell and memoGrid as it was; on a given cell and in a
\* Completed state it changes nothing.
C15_ClearCell ==
  selectedCell # NoCell =>
    Cleared(handleClearCell(Component, now))

\* The clear button was pressed in memory mode on a playable cell, while
\* other cells hold memos.
C15_Witness ==
  /\ lastOp = [name |-> "clear", rejected |-> FALSE]
  /\ gameState.isMemoryMode
  /\ selectedCell # NoCell
  /\ gameState.memoGrid[selectedCell[1]][selectedCell[2]] = {}
  /\ \E p \in Cells : gameState.memoGrid[p[1]][p[2]] # {}
  /\ storage = <<saveCurrentGame(gameState)>>

\* ---------------------------------------------------------------- C16
\* The component once after the memory mode button was pressed.
ModeToggled(once) ==
  /\ ~Completed(gameState)
       => /\ once.gameState.isMemoryMode = ~gameState.isMemoryMode
          /\ once.gameState.currentGrid = gameState.currentGrid
          /\ once.gameState.memoGrid = gameState.memoGrid
          /\ once.gameState.puzzle = gameState.puzzle
          /\ once.gameState.completedAt = gameState.completedAt
          /\ once.gameState.timeSpent = gameState.timeSpent
          /\ handleToggleMemoryMode(once, now).gameState.isMemoryMode
               = gameState.isMemoryMode
  /\ Completed(gameState) => once = Component

\* C16: handleToggleMemoryMode in a state not Completed turns isMemoryMode
\* over and leaves currentGrid, memoGrid, puzzle, completedAt and timeSpent
\* as they are; run twice it leaves isMemoryMode as it was; in a Completed
\* state it changes nothing.
C16_MemoryModeToggled ==
  ModeToggled(handleToggleMemoryMode(Component, now))

\* Memory mode was turned on at a time later than the game's start, with
\* memos on the board.
C16_Witness ==
  /\ lastOp = [name |-> "toggleMemoryMode", rejected |-> FALSE]
  /\ gameState.isMemoryMode
  /\ gameState.lastModified > gameState.startedAt
  /\ gameState.timeSpent # gameState.lastModified - gameState.startedAt
  /\ \E p \in Cells : gameState.memoGrid[p[1]][p[2]] # {}

\* ---------------------------------------------------------------- C17
\* The memo grid saved holds every memo set of the state as an array of its
\* numbers.
IsArrayOf(array, cell) ==
  array \in Seq(0..9) /\ Len(array) = Cardinality(cell)

WrittenAsArrays(saved) ==
  \A p \in Cells : IsArrayOf(saved[p[1]][p[2]], gameState.memoGrid[p[1]][p[2]])

\* The state loaded is the state that was saved.
LoadedAsSaved(loaded) ==
  /\ loaded.currentGrid = gameState.currentGrid
  /\ loaded.memoGrid = gameState.memoGrid
  /\ loaded.puzzle = gameState.puzzle
  /\ loaded.startedAt = gameState.startedAt
  /\ loaded.lastModified = gameState.lastModified
  /\ loaded.completedAt = gameState.completedAt
  /\ loaded.timeSpent = gameState.timeSpent
  /\ loaded.hintsUsed = gameState.hintsUsed
  /\ loaded.isMemoryMode = gameState.isMemoryMode

\* C17: a state saved and loaded again has the same currentGrid, the same
\* memo set in every cell, and the same puzzle, startedAt, lastModified,
\* completedAt, timeSpent, hintsUsed and isMemoryMode; and what storage
\* holds was written with every memo set as an array.
C17_SaveLoadRoundTrip ==
  /\ WrittenAsArrays(saveCurrentGame(gameState).memoGrid)
  /\ LoadedAsSaved(loadCurrentGame(saveCurrentGame(gameState)))

\* The page was loaded again on a saved game in memory mode that holds a
\* memo set of two numbers and a memo the player added.
C17_Witness ==
  /\ lastOp = [name |-> "mount", rejected |-> FALSE]
  /\ events > 0
  /\ gameState.isMemoryMode
  /\ \E p \in Cells : Cardinality(gameState.memoGrid[p[1]][p[2]]) >= 2
  /\ selectedCell = NoCell
  /\ \E p \in SelectCells : gameState.memoGrid[p[1]][p[2]] # {}

\* ---------------------------------------------------------------- C18
\* The cells that are not given, and those of them that hold a number.
NonGiven(gs) == {p \in Cells : ~IsGiven(gs, p)}
FilledNonGiven(gs) == {p \in NonGiven(gs) : gs.currentGrid[p[1]][p[2]] # 0}

\* percent is 100 * filled / total rounded to the nearest integer, a half
\* rounded up.
IsRounded(percent, filled, total) ==
  /\ 2 * total * percent - total <= 200 * filled
  /\ 200 * filled < 2 * total * percent + total

\* C18: the percentage rendered is 100 * filled / total rounded, filled
\* counting the non-given cells that hold a number, right or wrong; it is
\* 100 when no cell is non-given, 0 when currentGrid is the initial grid,
\* 100 when currentGrid is the solution, and always within 0..100.
C18_ProgressIsRoundedShare ==
  progress # <<>> =>
    LET total == Cardinality(NonGiven(gameState))
        filled == Cardinality(FilledNonGiven(gameState))
    IN /\ progress[1] \in 0..100
       /\ total = 0 => progress[1] = 100
       /\ total > 0 => IsRounded(progress[1], filled, total)
       /\ (total > 0 /\ gameState.currentGrid = gameState.puzzle.initialGrid)
            => progress[1] = 0
       /\ gameState.currentGrid = gameState.puzzle.solution => progress[1] = 100

\* Whatever the rounding of a half, the percentage rendered is an integer
\* nearest to 100 * filled / total.
ProgressNearest ==
  (progress # <<>> /\ NonGiven(gameState) # {}) =>
    LET total == Cardinality(NonGiven(gameState))
        filled == Cardinality(FilledNonGiven(gameState))
    IN /\ 2 * total * progress[1] - total <= 200 * filled
       /\ 200 * filled <= 2 * total * progress[1] + total

\* ---------------------------------------------------------------- C19
\* C19: solveSudoku and hasUniqueSolution return on every grid of cells in
\* 0..9: on the all-zero grid and on grids whose givens clash too, the
\* outermost call of the search returns.
C19_SearchTerminates == <>(searchPc = "done")

\* At most one call per cell is in progress, each in its loop at a number
\* 1..9 or past it, on a cell of its own.
SearchBounded ==
  /\ Len(searchStack) <= 81
  /\ \A i \in 1..Len(searchStack) : searchStack[i].num \in 1..10
  /\ \A i, j \in 1..Len(searchStack) :
       i < j => <<searchStack[i].row, searchStack[i].col>>
                  # <<searchStack[j].row, searchStack[j].col>>
  /\ Len(searchSolutions) <= 2

\* At its end the step-by-step search has what the recursive definitions
\* give (on the grids they can be evaluated on).
SearchAsRecursion ==
  (searchPc = "done" /\ searchInput \notin {EmptyGrid, SampleInitial}) =>
    /\ searchKind = "solve"
         => /\ searchReturned = (solveSudoku(searchInput).ret # None)
            /\ searchReturned => searchGrid = solveSudoku(searchInput).ret
    /\ searchKind = "unique"
         => /\ searchReturned = hasUniqueSolution(searchInput).ret
            /\ searchSolutions = hasUniqueSolution(searchInput).solutions

\* hasUniqueSolution has returned on the all-zero grid, with two solutions
\* found.
C19_Witness ==
  /\ searchPc = "done"
  /\ searchKind = "unique"
  /\ searchInput = EmptyGrid
  /\ Len(searchSolutions) = 2
  /\ ~searchReturned

\* The answer is a grid of exactly nine rows of exactly nine integers of
\* 0..9.
WellFormed(parsed) ==
  /\ parsed.grid.type = "array"
  /\ Len(parsed.grid.rows) = 9
  /\ \A i \in 1..9 :
       /\ parsed.grid.rows[i].type = "array"
       /\ Len(parsed.grid.rows[i].cells) = 9
       /\ \A j \in 1..9 :
            LET cell == parsed.grid.rows[i].cells[j]
            IN cell.type = "number" /\ cell.integer /\ cell.value \in 0..9

\* The editor's text stands for no grid.
TextRefused ==
  /\ step = "edit"
  /\ editor.editMode = "text"
  /\ stringToGrid(editor.textInput) = None

\* C20: a recognised grid that is malformed is answered with success =
\* false and without a grid, and the editor, where a grid is validated and
\* solved, does not open on it: it opens on a grid of nine rows of nine
\* numbers of 0..9 only.  A text of the editor that stands for no grid
\* replaces the edited grid in no handler (the apply button, the switch to
\* the board, the save), and the save returns before solveSudoku and onSave.
C20_MalformedRejected ==
  /\ (response # None /\ parsedResult # None /\ ~WellFormed(parsedResult))
       => /\ ~response.success
          /\ response.grid = None
          /\ (lastOp.name = "photoAnalyzed" /\ lastOp.rejected) => step = "upload"
  /\ step = "edit" => editor.grid \in [Idx -> [Idx -> 0..9]]
  /\ TextRefused
       => /\ applyTextChanges(editor).grid = editor.grid
          /\ handleModeChange(editor, "ui").grid = editor.grid
          /\ handleModeChange(editor, "ui").editMode = "text"
          /\ \A proceed \in BOOLEAN :
               /\ handleSave(editor, proceed).editor.grid = editor.grid
               /\ handleSave(editor, proceed).onSave = None
               /\ ~handleSave(editor, proceed).solved

\* A malformed answer was rejected, and later a text that stands for no grid
\* was refused at the switch to the board.
C20_Witness ==
  /\ response # None
  /\ parsedResult # None
  /\ ~WellFormed(parsedResult)
  /\ ~response.success
  /\ TextRefused
  /\ lastOp = [name |-> "modeChange", rejected |-> TRUE]

\* ---------------------------------------------------------------- C21

\* The e-mail of the session is one of the allowed users.
Allowed(posted) ==
  /\ posted.auth.email.type = "string"
  /\ \E i \in 1..Len(posted.ALLOW_USERS) :
       TrimLine(posted.ALLOW_USERS[i]) = posted.auth.email.chars

\* C21: a request to analyze-image or to analyze-sudoku whose session has
\* no e-mail, or an e-mail that is not in ALLOW_USERS, is answered with
\* success = false and without a call to Gemini.
C21_GeminiOnlyForAllowedUsers ==
  (request # None /\ ~Allowed(request))
    => /\ ~geminiCalled
       /\ request.route = "analyze-image" => ~response.success
       /\ request.route = "analyze-sudoku" => ~hint.success

\* ---------------------------------------------------------------- C22

\* g comes before h in the lexicographic order of the cells read row by
\* row: at the first cell where they differ g has the smaller number.
ComesBefore(g, h) ==
  \E p \in Cells :
    /\ g[p[1]][p[2]] < h[p[1]][p[2]]
    /\ \A q \in Cells :
         (q[1] < p[1] \/ (q[1] = p[1] /\ q[2] < p[2]))
           => g[q[1]][q[2]] = h[q[1]][q[2]]

\* C22: on a grid that passes isValidSudokuPuzzle and has a completion,
\* solveSudoku returns the completion that comes first in the
\* lexicographic order of the cells read row by row, and a second call on
\* the same grid returns the same grid.
C22_FirstCompletionReturned ==
  (pc \in {"solved", "checked"} /\ isValidSudokuPuzzle(givenGrid)
     /\ Completions(givenGrid) # {})
    => /\ solveRet \in Completions(givenGrid)
       /\ \A h \in Completions(givenGrid) : h = solveRet \/ ComesBefore(solveRet, h)
       /\ solveSudoku(givenGrid).ret = solveRet

\* solveSudoku has returned on a valid grid with more than one completion.
C22_Witness ==
  /\ pc = "solved"
  /\ isValidSudokuPuzzle(givenGrid)
  /\ Cardinality(Completions(givenGrid)) >= 2
  /\ solveRet # None

\* ---------------------------------------------------------------- C23
\* C23: the list of findAllSolutions never holds more than two grids, and
\* once it holds two, no call still in progress tries a number
\* (isValidMove) or places one in a cell.
C23_StopsAtSecondSolution ==
  [][searchKind = "unique"
       => /\ Len(searchSolutions') <= 2
          /\ Len(searchSolutions) = 2
               => /\ ~UniqueTry
                  /\ \A p \in Cells :
                       searchGrid'[p[1]][p[2]] \in {0, searchGrid[p[1]][p[2]]}]_vars

\* ---------------------------------------------------------------- C24
\* C24: when the game inside HeaderController becomes complete, the header
\* is visible once SudokuGame has told HeaderController, also when the
\* player had hidden the header before.
C24_HeaderShownOnCompletion ==
  [][(header # None /\ ~isComplete /\ isComplete') => header'.isHeaderVisible]_vars

\* ---------------------------------------------------------------- C25
\* C25: after every handler that changed the game (a number committed, a
\* cell cleared, a memo toggled or cleared, the memory mode toggled, all
\* memos cleared, the reset, the completion that follows an input), storage
\* holds the game state the component holds, before any auto-save.
C25_SavedOnEveryChange ==
  (lastOp.name \in {"input", "clear", "toggleMemoryMode", "clearAllMemos", "reset"}
     /\ ~lastOp.rejected)
    => storage = <<saveCurrentGame(gameState)>>

\* ---------------------------------------------------------------- C26
\* C26: in every state of the game every memo set holds numbers of 1..9
\* only, and the memo set of a cell that holds a number in currentGrid (a
\* given or one the player entered) is empty.
C26_MemosOnEmptyCellsOnly ==
  \A cell \in Cells :
    /\ gameState.memoGrid[cell[1]][cell[2]] \subseteq 1..9
    /\ gameState.currentGrid[cell[1]][cell[2]] # 0
         => gameState.memoGrid[cell[1]][cell[2]] = {}

\* ---------------------------------------------------------------- C27
\* C27: on every grid, when hasUniqueSolution returns true, solveSudoku
\* returns a grid, and it is the one solution findAllSolutions recorded;
\* when solveSudoku returns null, hasUniqueSolution returns false.
C27_UniqueAgreesWithSolve ==
  pc = "checked" =>
    /\ uniqueRet => (solveRet # None /\ foundSolutions = <<solveRet>>)
    /\ solveRet = None => ~uniqueRet

\* Both calls have returned on a grid with empty cells that has one
\* solution.
C27_Witness ==
  /\ pc = "checked"
  /\ uniqueRet
  /\ Cardinality(Blanks(givenGrid)) >= 2
  /\ foundSolutions = <<solveRet>>

\* ---------------------------------------------------------------- C28
\* C28: on every grid of nine rows of nine numbers of 0..9,
\* isValidSudokuPuzzle returns true exactly when validateGrid reports no
\* cell.
C28_ValidityChecksAgree ==
  pc = "validated" => (isValidSudokuPuzzle(givenGrid) <=> conflicts = {})

\* A grid with empty cells was validated, cells were reported and
\* isValidSudokuPuzzle returns false.
C28_Witness ==
  /\ pc = "validated"
  /\ Blanks(givenGrid) # {}
  /\ conflicts # {}
  /\ ~isValidSudokuPuzzle(givenGrid)

\* ---------------------------------------------------------------- C29

\* after is memos with nothing but number taken out, and out of no set of
\* the cells of kept.
OnlyNumberLeft(memos, after, number, kept) ==
  \A p \in Cells :
    /\ after[p[1]][p[2]] \subseteq memos[p[1]][p[2]]
    /\ memos[p[1]][p[2]] \ after[p[1]][p[2]] \subseteq {number}
    /\ p \in kept => after[p[1]][p[2]] = memos[p[1]][p[2]]

\* C29 as stated: autoRemoveMemos(memoGrid, row, col, number) returns the
\* set of (row, col) itself and of every cell outside its row, column and
\* block unchanged, leaves every other number in every set, and applied
\* twice gives what it gives applied once.
C29_Original ==
  \A cell \in MemoArguments : \A number \in MemoNumbers :
    LET after == autoRemoveMemos(gameState.memoGrid, cell[1], cell[2], number)
    IN /\ OnlyNumberLeft(gameState.memoGrid, after, number,
                         (Cells \ Group(cell)) \cup {cell})
       /\ autoRemoveMemos(after, cell[1], cell[2], number) = after

\* C29, amended: autoRemoveMemos(memoGrid, row, col, number) returns the
\* set of every cell outside the row, column and block of (row, col)
\* unchanged and leaves every other number in every set; number is in no
\* set of the row, the column and the block afterwards, the set of
\* (row, col) itself included; applied twice it gives what it gives
\* applied once.
C29_Amended ==
  \A cell \in MemoArguments : \A number \in MemoNumbers :
    LET after == autoRemoveMemos(gameState.memoGrid, cell[1], cell[2], number)
    IN /\ OnlyNumberLeft(gameState.memoGrid, after, number, Cells \ Group(cell))
       /\ \A p \in Group(cell) : number \notin after[p[1]][p[2]]
       /\ autoRemoveMemos(after, cell[1], cell[2], number) = after

\* autoRemoveMemos has taken 1 from the sets of (0, 7) and of the cells of
\* its row, its column and its block, and has left 2 there and the set of
\* the cell outside them as it was.
C29_Witness ==
  /\ lastOp.name = "autoRemoveMemos"
  /\ gameState.memoGrid[0][7] = {2}
  /\ \A p \in {<<0, 3>>, <<4, 7>>, <<1, 8>>} : gameState.memoGrid[p[1]][p[2]] = {2}
  /\ gameState.memoGrid[8][0] = {1, 2}

\* ---------------------------------------------------------------- C30

\* The game's page after the redirect: SudokuGame mounted on the stored
\* game.
GamePage == mount(storage, now)

\* The component once the player has filled the non-given cells as the
\* full grid h has them, the cell last filled being last: the state before
\* that input, handleNumberInput, and the completion effect.
FilledIn(h, last) ==
  completionEffect(
    handleNumberInput(
      [GamePage EXCEPT !.gameState.currentGrid = SetCell(h, last[1], last[2], 0),
                       !.selectedCell = last],
      h[last[1]][last[2]], now),
    now)

\* C30: on every puzzle CreatePuzzle stored, one stored after the warning
\* of several solutions was confirmed included, the game is complete once
\* the player has filled every non-given cell and findConflicts reports no
\* cell of currentGrid.
C30_FilledWithoutConflictCompletes ==
  step = "game" =>
    \A h \in Completions(GamePage.gameState.puzzle.initialGrid) :
      findConflicts(h) = {} =>
        /\ Blanks(GamePage.gameState.puzzle.initialGrid) = {} => GamePage.isComplete
        /\ \A last \in Blanks(GamePage.gameState.puzzle.initialGrid) :
             /\ FilledIn(h, last).gameState.currentGrid = h
             /\ FilledIn(h, last).isComplete
             /\ Completed(FilledIn(h, last).gameState)

=============================================================================
